---- MODULE Spec2Model ----
(***************************************************************************)
(* Model of backlog-readonly-mcp: the tool registry (tool-registry.ts),    *)
(* the Backlog API client (backlog-api-client.ts) and the configuration    *)
(* manager (config-manager.ts).                                            *)
(*                                                                         *)
(* JavaScript strings are sequences of one-character tokens.  An ASCII     *)
(* character is the one-character string itself; any other character is   *)
(* the token "Uxxxx" of its code point, e.g. "U8AAD" for the first         *)
(* character of the read-only marker.                                      *)
(***************************************************************************)
EXTENDS Integers, Sequences, FiniteSets, TLC

\* ------------------------------------------------------------------ strings

Chars(s) == [i \in 1..Len(s) |-> SubSeq(s, i, i)]

UpperAlphabet == Chars("ABCDEFGHIJKLMNOPQRSTUVWXYZ")
LowerAlphabet == Chars("abcdefghijklmnopqrstuvwxyz")

UpperLetters == {UpperAlphabet[i] : i \in DOMAIN UpperAlphabet}
LowerOf ==
    [c \in UpperLetters |->
        LowerAlphabet[CHOOSE i \in DOMAIN UpperAlphabet : UpperAlphabet[i] = c]]

ToLowerChar(c) == IF c \in UpperLetters THEN LowerOf[c] ELSE c

\* String.prototype.toLowerCase
ToLowerCase(s) == [i \in 1..Len(s) |-> ToLowerChar(s[i])]

\* String.prototype.startsWith
StartsWith(s, p) == Len(p) <= Len(s) /\ SubSeq(s, 1, Len(p)) = p

\* String.prototype.includes
Includes(s, sub) ==
    \E i \in 0..(Len(s) - Len(sub)) : SubSeq(s, i + 1, i + Len(sub)) = sub

\* an optional value (T | undefined): <<>> is undefined, <<x>> is x
None == <<>>
Some(x) == <<x>>

\* '読み取り専用'
ReadOnlyMarker == <<"U8AAD", "U307F", "U53D6", "U308A", "U5C02", "U7528">>

\* '（読み取り専用）'
EnhanceSuffix == <<"UFF08">> \o ReadOnlyMarker \o <<"UFF09">>

\* 'このMCPサーバーは読み取り専用です。'
ServerIsReadOnly ==
    <<"U3053", "U306E">> \o Chars("MCP")
      \o <<"U30B5", "U30FC", "U30D0", "U30FC", "U306F">> \o ReadOnlyMarker
      \o <<"U3067", "U3059", "U3002">>

\* 'リクエストは許可されていません。'
RequestNotAllowed ==
    <<"U30EA", "U30AF", "U30A8", "U30B9", "U30C8", "U306F", "U8A31", "U53EF",
      "U3055", "U308C", "U3066", "U3044", "U307E", "U305B", "U3093", "U3002">>

\* '読み取り専用制限違反: ツール "'
ViolationPrefix ==
    ReadOnlyMarker \o <<"U5236", "U9650", "U9055", "U53CD">> \o Chars(": ")
      \o <<"U30C4", "U30FC", "U30EB">> \o Chars(" ") \o <<"U0022">>

\* '" は書き込み操作を示すため登録できません。このMCPサーバーは読み取り専用です。'
NameViolationSuffix ==
    <<"U0022">> \o Chars(" ")
      \o <<"U306F", "U66F8", "U304D", "U8FBC", "U307F", "U64CD", "U4F5C", "U3092",
           "U793A", "U3059", "U305F", "U3081", "U767B", "U9332", "U3067", "U304D",
           "U307E", "U305B", "U3093", "U3002">>
      \o ServerIsReadOnly

\* '" の説明に書き込み操作を示すキーワードが含まれていますが、読み取り専用の明記がありません。'
DescriptionViolationSuffix ==
    <<"U0022">> \o Chars(" ")
      \o <<"U306E", "U8AAC", "U660E", "U306B", "U66F8", "U304D", "U8FBC", "U307F",
           "U64CD", "U4F5C", "U3092", "U793A", "U3059", "U30AD", "U30FC", "U30EF",
           "U30FC", "U30C9", "U304C", "U542B", "U307E", "U308C", "U3066", "U3044",
           "U307E", "U3059", "U304C", "U3001">>
      \o ReadOnlyMarker
      \o <<"U306E", "U660E", "U8A18", "U304C", "U3042", "U308A", "U307E", "U305B",
           "U3093", "U3002">>

\* '" で書き込み操作を示すパラメータが検出されました。このMCPサーバーは読み取り専用です。'
ParamViolationSuffix ==
    <<"U0022">> \o Chars(" ")
      \o <<"U3067", "U66F8", "U304D", "U8FBC", "U307F", "U64CD", "U4F5C", "U3092",
           "U793A", "U3059", "U30D1", "U30E9", "U30E1", "U30FC", "U30BF", "U304C",
           "U691C", "U51FA", "U3055", "U308C", "U307E", "U3057", "U305F", "U3002">>
      \o ServerIsReadOnly

\* '存在しないツール: '
UnknownToolPrefix ==
    <<"U5B58", "U5728", "U3057", "U306A", "U3044", "U30C4", "U30FC", "U30EB">>
      \o Chars(": ")

\* ----------------------------------------------------------- tool registry

\* /^create/i ... /^write/i
WRITE_OPERATION_PATTERNS ==
    { Chars("create"), Chars("add"), Chars("update"), Chars("edit"),
      Chars("modify"), Chars("delete"), Chars("remove"), Chars("post"),
      Chars("put"), Chars("patch"), Chars("upload"), Chars("insert"),
      Chars("save"), Chars("write") }

writeKeywords ==
    { <<"U4F5C", "U6210">>, <<"U8FFD", "U52A0">>, <<"U66F4", "U65B0">>,
      <<"U7DE8", "U96C6">>, <<"U5909", "U66F4">>, <<"U524A", "U9664">>,
      Chars("create"), Chars("add"), Chars("update"), Chars("edit"),
      Chars("modify"), Chars("delete"), Chars("remove"), Chars("post"),
      Chars("put"), Chars("patch") }

writeParams ==
    { Chars("create"), Chars("add"), Chars("update"), Chars("edit"),
      Chars("modify"), Chars("delete"), Chars("remove"), Chars("post"),
      Chars("put"), Chars("patch") }

\* tool.description || ''
DescriptionOf(tool) ==
    IF tool.description = None THEN <<>> ELSE tool.description[1]

\* the name check without the patterns' i flag
IsWriteOperationCaseSensitive(name) ==
    \E p \in WRITE_OPERATION_PATTERNS : StartsWith(name, p)

\* WRITE_OPERATION_PATTERNS.some((pattern) => pattern.test(tool.name))
IsWriteOperation(name) ==
    LET lowerName == ToLowerCase(name)
    IN \E p \in WRITE_OPERATION_PATTERNS : StartsWith(lowerName, p)

\* the description check without toLowerCase()
HasWriteKeywordCaseSensitive(description) ==
    \E k \in writeKeywords : Includes(description, k)

\* writeKeywords.some((keyword) => description.toLowerCase().includes(keyword.toLowerCase()))
HasWriteKeyword(description) ==
    LET lowerDescription == ToLowerCase(description)
    IN \E k \in writeKeywords : Includes(lowerDescription, ToLowerCase(k))

NoError == [class |-> "none", message |-> <<>>]
MkError(class, message) == [class |-> class, message |-> message]

\* validateReadOnlyTool: NoError when it returns, the error it throws otherwise
validateReadOnlyTool(tool) ==
    IF IsWriteOperation(tool.name)
    THEN MkError("ReadOnlyViolationError",
                 ViolationPrefix \o tool.name \o NameViolationSuffix)
    ELSE IF HasWriteKeyword(DescriptionOf(tool))
            /\ ~Includes(DescriptionOf(tool), ReadOnlyMarker)
    THEN MkError("ReadOnlyViolationError",
                 ViolationPrefix \o tool.name \o DescriptionViolationSuffix)
    ELSE NoError

\* a registration that stores the tool as it was given
keepToolDescription(tool) == tool

enhanceToolDescription(tool) ==
    IF ~Includes(DescriptionOf(tool), ReadOnlyMarker)
    THEN [tool EXCEPT !.description = Some(DescriptionOf(tool) \o EnhanceSuffix)]
    ELSE tool

\* the argument check without toLowerCase()
hasWriteParamCaseSensitive(args) ==
    \E key \in args :
        \E writeParam \in writeParams :
            key = writeParam \/ StartsWith(key, writeParam \o Chars("_"))

\* Object.keys(args).some(key => writeParams.some(p => lowerKey === p || lowerKey.startsWith(`${p}_`)))
hasWriteParam(args) ==
    \E key \in args :
        LET lowerKey == ToLowerCase(key)
        IN \E writeParam \in writeParams :
              \/ lowerKey = writeParam
              \/ StartsWith(lowerKey, writeParam \o Chars("_"))

\* --------------------------------------------------------------- numbers

\* a JavaScript number as far as the code needs it: an integer or NaN
NaN == [nan |-> TRUE, n |-> 0]
Num(n) == [nan |-> FALSE, n |-> n]

Min(a, b) == IF a <= b THEN a ELSE b

\* Math.min: NaN when an argument is NaN
MathMin(a, b) == IF a.nan \/ b.nan THEN NaN ELSE Num(Min(a.n, b.n))

Times(a, k) == IF a.nan THEN NaN ELSE Num(a.n * k)

Digits == Chars("0123456789")
IsDigit(c) == \E i \in DOMAIN Digits : Digits[i] = c
DigitValue(c) == (CHOOSE i \in DOMAIN Digits : Digits[i] = c) - 1
IsWhiteSpace(c) == c \in {" ", "\t", "\r", "\n"}

RECURSIVE TrimStart(_)
TrimStart(s) ==
    IF s # <<>> /\ IsWhiteSpace(Head(s)) THEN TrimStart(Tail(s)) ELSE s

RECURSIVE TrimEnd(_)
TrimEnd(s) ==
    IF s # <<>> /\ IsWhiteSpace(s[Len(s)])
    THEN TrimEnd(SubSeq(s, 1, Len(s) - 1))
    ELSE s

\* String.prototype.trim
Trim(s) == TrimEnd(TrimStart(s))

RECURSIVE DigitPrefixValue(_, _)
DigitPrefixValue(s, acc) ==
    IF s # <<>> /\ IsDigit(Head(s))
    THEN DigitPrefixValue(Tail(s), acc * 10 + DigitValue(Head(s)))
    ELSE acc

\* parseInt(s, 10): leading white space, an optional sign, the longest run of
\* digits; NaN when there is no digit
ParseInt(s) ==
    LET t == TrimStart(s)
        neg == t # <<>> /\ Head(t) = "-"
        u == IF t # <<>> /\ Head(t) \in {"-", "+"} THEN Tail(t) ELSE t
    IN IF u = <<>> \/ ~IsDigit(Head(u))
       THEN NaN
       ELSE Num(IF neg THEN 0 - DigitPrefixValue(u, 0) ELSE DigitPrefixValue(u, 0))

\* ---------------------------------------------------------------- messages

\* '。しばらく時間をおいて再試行してください。'
RetryLater ==
    <<"U3002", "U3057", "U3070", "U3089", "U304F", "U6642", "U9593", "U3092",
      "U304A", "U3044", "U3066", "U518D", "U8A66", "U884C", "U3057", "U3066",
      "U304F", "U3060", "U3055", "U3044", "U3002">>

\* '...の設定を確認してください。'
CheckSetting ==
    <<"U306E", "U8A2D", "U5B9A", "U3092", "U78BA", "U8A8D", "U3057", "U3066",
      "U304F", "U3060", "U3055", "U3044", "U3002">>

\* 'リクエストが無効です: '
Msg400 ==
    <<"U30EA", "U30AF", "U30A8", "U30B9", "U30C8", "U304C", "U7121", "U52B9",
      "U3067", "U3059">> \o Chars(": ")

\* 'APIキーが無効です。BACKLOG_API_KEYの設定を確認してください。'
Msg401 ==
    Chars("API") \o <<"U30AD", "U30FC", "U304C", "U7121", "U52B9", "U3067",
      "U3059", "U3002">> \o Chars("BACKLOG_API_KEY") \o CheckSetting

\* 'このリソースにアクセスする権限がありません。プロジェクトのメンバーであることを確認してください。'
Msg403 ==
    <<"U3053", "U306E", "U30EA", "U30BD", "U30FC", "U30B9", "U306B", "U30A2",
      "U30AF", "U30BB", "U30B9", "U3059", "U308B", "U6A29", "U9650", "U304C",
      "U3042", "U308A", "U307E", "U305B", "U3093", "U3002", "U30D7", "U30ED",
      "U30B8", "U30A7", "U30AF", "U30C8", "U306E", "U30E1", "U30F3", "U30D0",
      "U30FC", "U3067", "U3042", "U308B", "U3053", "U3068", "U3092", "U78BA",
      "U8A8D", "U3057", "U3066", "U304F", "U3060", "U3055", "U3044", "U3002">>

\* '指定されたリソースが見つかりません: '
Msg404 ==
    <<"U6307", "U5B9A", "U3055", "U308C", "U305F", "U30EA", "U30BD", "U30FC",
      "U30B9", "U304C", "U898B", "U3064", "U304B", "U308A", "U307E", "U305B",
      "U3093">> \o Chars(": ")

\* 'APIの利用制限に達しました。しばらく時間をおいて再試行してください。'
Msg429 ==
    Chars("API") \o <<"U306E", "U5229", "U7528", "U5236", "U9650", "U306B",
      "U9054", "U3057", "U307E", "U3057", "U305F">> \o RetryLater

\* 'Backlogサーバーで内部エラーが発生しました。しばらく時間をおいて再試行してください。'
Msg500 ==
    Chars("Backlog") \o <<"U30B5", "U30FC", "U30D0", "U30FC", "U3067", "U5185",
      "U90E8", "U30A8", "U30E9", "U30FC", "U304C", "U767A", "U751F", "U3057",
      "U307E", "U3057", "U305F">> \o RetryLater

\* 'Backlogサーバーが一時的に利用できません。しばらく時間をおいて再試行してください。'
Msg503 ==
    Chars("Backlog") \o <<"U30B5", "U30FC", "U30D0", "U30FC", "U304C", "U4E00",
      "U6642", "U7684", "U306B", "U5229", "U7528", "U3067", "U304D", "U307E",
      "U305B", "U3093">> \o RetryLater

\* 'ネットワークに接続できません。インターネット接続を確認してください。'
MsgNetwork ==
    <<"U30CD", "U30C3", "U30C8", "U30EF", "U30FC", "U30AF", "U306B", "U63A5",
      "U7D9A", "U3067", "U304D", "U307E", "U305B", "U3093", "U3002", "U30A4",
      "U30F3", "U30BF", "U30FC", "U30CD", "U30C3", "U30C8", "U63A5", "U7D9A",
      "U3092", "U78BA", "U8A8D", "U3057", "U3066", "U304F", "U3060", "U3055",
      "U3044", "U3002">>

\* 'Backlogドメインが見つかりません。BACKLOG_DOMAINの設定を確認してください。'
MsgDomain ==
    Chars("Backlog") \o <<"U30C9", "U30E1", "U30A4", "U30F3", "U304C", "U898B",
      "U3064", "U304B", "U308A", "U307E", "U305B", "U3093", "U3002">>
      \o Chars("BACKLOG_DOMAIN") \o CheckSetting

\* 'リクエストがタイムアウトしました。しばらく時間をおいて再試行してください。'
MsgTimeout ==
    <<"U30EA", "U30AF", "U30A8", "U30B9", "U30C8", "U304C", "U30BF", "U30A4",
      "U30E0", "U30A2", "U30A6", "U30C8", "U3057", "U307E", "U3057", "U305F">>
      \o RetryLater

\* 'ユーザー一覧の取得に失敗しました: '
GetUsersFailed ==
    <<"U30E6", "U30FC", "U30B6", "U30FC", "U4E00", "U89A7", "U306E", "U53D6",
      "U5F97", "U306B", "U5931", "U6557", "U3057", "U307E", "U3057", "U305F">>
      \o Chars(": ")

\* ------------------------------------------------------------- API client

\* what axios hands to the client for one request: a response, an error with
\* a response (kind "http") or an error without one (kind "network")
OkReply(data) ==
    [kind |-> "ok", status |-> 200, retryAfter |-> None, code |-> "",
     apiMessage |-> None, message |-> <<>>, data |-> data]
HttpError(status, retryAfter, apiMessage, message) ==
    [kind |-> "http", status |-> status, retryAfter |-> retryAfter, code |-> "",
     apiMessage |-> apiMessage, message |-> message, data |-> ""]
NetworkFailure(code, message) ==
    [kind |-> "network", status |-> 0, retryAfter |-> None, code |-> code,
     apiMessage |-> None, message |-> message, data |-> ""]
\* an error that is not an AxiosError (axios.isAxiosError(error) is false)
OtherFailure(message) ==
    [kind |-> "other", status |-> 0, retryAfter |-> None, code |-> "",
     apiMessage |-> None, message |-> message, data |-> ""]
NoReply ==
    [kind |-> "none", status |-> 0, retryAfter |-> None, code |-> "",
     apiMessage |-> None, message |-> <<>>, data |-> ""]

\* error.response?.status === 429 || status >= 500, or a network error whose
\* code is not permanent
permanentErrorCodes ==
    {"ENOTFOUND", "ECONNREFUSED", "EHOSTUNREACH", "ENOENT", "EACCES", "EPERM"}

\* a retry decision that retries every failure
shouldRetryAlways(error) == error.kind \in {"http", "network"}

\* a retry decision that does not look at the code of a network error
shouldRetryEveryNetworkError(error) ==
    IF error.kind = "http"
    THEN error.status = 429 \/ error.status >= 500
    ELSE error.kind = "network"

\* a backoff that doubles without a ceiling
calculateBackoffDelayUncapped(attempt) == 2 ^ (attempt - 1) * 1000

shouldRetry(error) ==
    IF error.kind = "http"
    THEN error.status = 429 \/ error.status >= 500
    ELSE IF error.kind = "network"
    THEN ~(error.code # "" /\ error.code \in permanentErrorCodes)
    ELSE FALSE

\* Math.min(2 ** (attempt - 1) * 1000, 30000)
calculateBackoffDelay(attempt) == Min(2 ^ (attempt - 1) * 1000, 30000)

\* a rate-limit wait without a ceiling
RateLimitWaitUncapped(retryAfter) == Times(retryAfter, 1000)

\* handleRateLimit: Math.min(retryAfter * 1000, 60000)
RateLimitWait(retryAfter) == MathMin(Times(retryAfter, 1000), Num(60000))

\* parseInt(error.response.headers['retry-after'] || '60', 10)
RetryAfterOf(error) ==
    ParseInt(IF error.retryAfter = None \/ error.retryAfter = Some(<<>>)
             THEN Chars("60")
             ELSE error.retryAfter[1])

\* backlogError?.errors?.[0]?.message || error.message
OriginalMessage(error) ==
    IF error.apiMessage = None \/ error.apiMessage = Some(<<>>)
    THEN error.message
    ELSE error.apiMessage[1]

createUserFriendlyMessage(status, originalMessage) ==
    CASE status = 400 -> Msg400 \o originalMessage
      [] status = 401 -> Msg401
      [] status = 403 -> Msg403
      [] status = 404 -> Msg404 \o originalMessage
      [] status = 429 -> Msg429
      [] status = 500 -> Msg500
      [] status \in {502, 503, 504} -> Msg503
      [] OTHER -> originalMessage

\* an error with a response becomes AuthenticationError (401, 403) or Error;
\* one with a request but no response becomes NetworkError; an error that is
\* not an AxiosError becomes an Error with the same message
convertToBacklogError(error) ==
    IF error.kind = "http"
    THEN MkError(IF error.status \in {401, 403} THEN "AuthenticationError" ELSE "Error",
                 createUserFriendlyMessage(error.status, OriginalMessage(error)))
    ELSE IF error.kind = "network"
    THEN MkError("NetworkError", MsgNetwork)
    ELSE MkError("Error", error.message)

\* new Error(message) is the built-in Error: it has a message and no 'code'
\* property
IsBuiltinError(error) == error.class = "Error"

\* axiosInstance.get(endpoint, { params })
AxiosGet == [method |-> "GET", via |-> "get"]

\* a resend that does not reuse the failed request's method
AxiosResendAsPost(config) == [method |-> "POST", via |-> "resend"]

\* axiosInstance.request(error.config): the failed request's own configuration
AxiosResend(config) == [method |-> config.method, via |-> "resend"]

\* ------------------------------------------------- configuration manager

\* the index of the last '=' of a line, 0 when it has none
LastEquals(line) ==
    IF \E i \in DOMAIN line : line[i] = "="
    THEN CHOOSE i \in DOMAIN line : line[i] = "=" /\ \A j \in (i + 1)..Len(line) : line[j] # "="
    ELSE 0

\* the index of the first '=' of a line, 0 when it has none
FirstEquals(line) ==
    IF \E i \in DOMAIN line : line[i] = "="
    THEN CHOOSE i \in DOMAIN line : line[i] = "=" /\ \A j \in 1..(i - 1) : line[j] # "="
    ELSE 0

IsQuote(c) == c \in {"U0022", "'"}

\* value.replace(/^["']|["']$/g, ''): a quote at the start and a quote at
\* the end are removed, each on its own
StripQuotes(value) ==
    LET from == IF value # <<>> /\ IsQuote(value[1]) THEN 2 ELSE 1
        to == IF Len(value) >= from /\ IsQuote(value[Len(value)])
              THEN Len(value) - 1
              ELSE Len(value)
    IN SubSeq(value, from, to)

\* one line of the workspace file: <<>> when it sets nothing, <<key, value>>
\* otherwise ([key, ...valueParts] = trimmedLine.split('='))
ParseLine(line) ==
    LET trimmedLine == Trim(line)
        eq == FirstEquals(trimmedLine)
    IN IF trimmedLine = <<>> \/ trimmedLine[1] = "#" \/ eq <= 1
       THEN <<>>
       ELSE <<Trim(SubSeq(trimmedLine, 1, eq - 1)),
              StripQuotes(Trim(SubSeq(trimmedLine, eq + 1, Len(trimmedLine))))>>

\* workspaceConfig[key] after the lines were read in order: the last line
\* that sets key wins; None when no line sets it
RECURSIVE WorkspaceValue(_, _)
WorkspaceValue(lines, key) ==
    IF lines = <<>>
    THEN None
    ELSE LET entry == ParseLine(lines[Len(lines)])
         IN IF entry # <<>> /\ entry[1] = key
            THEN Some(entry[2])
            ELSE WorkspaceValue(SubSeq(lines, 1, Len(lines) - 1), key)

DefaultConfigPath == Chars(".backlog-mcp.env")

\* envConfigPath && envConfigPath.trim().length > 0 ? envConfigPath : '.backlog-mcp.env'
ConfigPath(environment) ==
    IF environment.BACKLOG_CONFIG_PATH # None
       /\ Trim(environment.BACKLOG_CONFIG_PATH[1]) # <<>>
    THEN environment.BACKLOG_CONFIG_PATH[1]
    ELSE DefaultConfigPath

\* a reader that falls back to the default file when configPath is missing
WorkspaceLinesOrDefault(environment, fileSystem) ==
    LET configPath == ConfigPath(environment)
    IN IF configPath \in DOMAIN fileSystem THEN fileSystem[configPath]
       ELSE IF DefaultConfigPath \in DOMAIN fileSystem THEN fileSystem[DefaultConfigPath]
       ELSE <<>>

\* the lines of the workspace file, <<>> when existsSync(configPath) is false
WorkspaceLines(environment, fileSystem) ==
    LET configPath == ConfigPath(environment)
    IN IF configPath \in DOMAIN fileSystem THEN fileSystem[configPath] ELSE <<>>

\* an optional string is truthy when it is set and not ''
Truthy(v) == v # None /\ v # Some(<<>>)

\* a || b on optional strings
OrElse(a, b) == IF Truthy(a) THEN a ELSE b

ConfigKeys ==
    [domain |-> Chars("BACKLOG_DOMAIN"), apiKey |-> Chars("BACKLOG_API_KEY"),
     defaultProject |-> Chars("BACKLOG_DEFAULT_PROJECT"),
     maxRetries |-> Chars("BACKLOG_MAX_RETRIES"),
     timeout |-> Chars("BACKLOG_TIMEOUT")]

\* b || a: the system environment before the workspace file
SystemEnvFirst(workspace, systemEnv) == OrElse(systemEnv, workspace)

\* 設定の優先順位処理：ワークスペース設定 > システム環境変数
\* an API key that falls back to a value of its own
ResolveApiKeyWithDefault(workspace, systemEnv) ==
    OrElse(OrElse(workspace, systemEnv), Some(Chars("anonymous")))

ResolveDomain(workspace, systemEnv) == OrElse(workspace, systemEnv)
ResolveApiKey(workspace, systemEnv) == OrElse(workspace, systemEnv)
ResolveDefaultProject(workspace, systemEnv) == OrElse(workspace, systemEnv)
\* a retry count that defaults to 5
ResolveMaxRetriesDefaultFive(workspace, systemEnv) ==
    OrElse(OrElse(workspace, systemEnv), Some(Chars("5")))

ResolveMaxRetries(workspace, systemEnv) ==
    OrElse(OrElse(workspace, systemEnv), Some(Chars("3")))
ResolveTimeout(workspace, systemEnv) ==
    OrElse(OrElse(workspace, systemEnv), Some(Chars("30000")))

\* 'BACKLOG_DOMAIN と BACKLOG_API_KEY が設定されていません。環境変数または .backlog-mcp.env ファイルで設定してください。'
MsgNotConfigured ==
    Chars("BACKLOG_DOMAIN ") \o <<"U3068">> \o Chars(" BACKLOG_API_KEY ")
      \o <<"U304C", "U8A2D", "U5B9A", "U3055", "U308C", "U3066", "U3044", "U307E",
           "U305B", "U3093", "U3002", "U74B0", "U5883", "U5909", "U6570", "U307E",
           "U305F", "U306F">>
      \o Chars(" .backlog-mcp.env ")
      \o <<"U30D5", "U30A1", "U30A4", "U30EB", "U3067", "U8A2D", "U5B9A", "U3057",
           "U3066", "U304F", "U3060", "U3055", "U3044", "U3002">>

NoConfig ==
    [domain |-> <<>>, apiKey |-> <<>>, defaultProject |-> None,
     maxRetries |-> NaN, timeout |-> NaN]

\* what loadConfig computes when nothing is cached: the configuration, or the
\* error it throws
ResolveConfig(environment, fileSystem) ==
    LET lines == WorkspaceLines(environment, fileSystem)
        ws(k) == WorkspaceValue(lines, ConfigKeys[k])
        domain == ResolveDomain(ws("domain"), environment.BACKLOG_DOMAIN)
        apiKey == ResolveApiKey(ws("apiKey"), environment.BACKLOG_API_KEY)
        defaultProject ==
            ResolveDefaultProject(ws("defaultProject"), environment.BACKLOG_DEFAULT_PROJECT)
        retries == ResolveMaxRetries(ws("maxRetries"), environment.BACKLOG_MAX_RETRIES)
        time == ResolveTimeout(ws("timeout"), environment.BACKLOG_TIMEOUT)
    IN IF ~Truthy(domain) \/ ~Truthy(apiKey)
       THEN [error |-> MkError("Error", MsgNotConfigured), config |-> NoConfig]
       ELSE [error |-> NoError,
             config |-> [domain |-> domain[1], apiKey |-> apiKey[1],
                         defaultProject |-> defaultProject,
                         maxRetries |-> ParseInt(retries[1]),
                         timeout |-> ParseInt(time[1])]]

\* ------------------------------------------------------------------ bounds

\* config.maxRetries ranges over 0..MaxRetriesBound
MaxRetriesBound == 2
\* at most this many 429 responses are given to one get() call
Max429 == 2
\* at most this many argument keys in one tool call
MaxArgKeys == 2
\* API keys have at most MaxKeyLen characters
MaxKeyLen == 10
\* config.maxRetries ranges over 0..MaxBackoffRetries where the backoff is followed
MaxBackoffRetries == 6
\* the logger's output is followed for this many lines
MaxLogLines == 3

\* ------------------------------------------------------------------ inputs

\* names that pass the name check, and names that begin with a write word
ReadNamePool == { Chars("get_users"), Chars("issue_update") }
WriteNamePool ==
    { Chars("create_issue"), Chars("ADD_comment"), Chars("Update"),
      Chars("editWiki"), Chars("modify_x"), Chars("Delete_wiki"),
      Chars("remove"), Chars("POST"), Chars("putative"), Chars("patch_issue"),
      Chars("UPLOAD"), Chars("Insert_row"), Chars("save_all"), Chars("Write") }
NamePool == ReadNamePool \cup WriteNamePool

\* '課題一覧を取得します'
ListIssuesText ==
    <<"U8AB2", "U984C", "U4E00", "U89A7", "U3092", "U53D6", "U5F97", "U3057",
      "U307E", "U3059">>
\* '課題を更新します'
UpdateIssueText ==
    <<"U8AB2", "U984C", "U3092", "U66F4", "U65B0", "U3057", "U307E", "U3059">>

DescriptionPool ==
    { None,
      Some(ListIssuesText),
      Some(UpdateIssueText \o EnhanceSuffix),
      Some(UpdateIssueText),
      Some(Chars("Update an issue")),
      Some(Chars("Padding of the list")),
      Some(Chars("PATCH notes ") \o ReadOnlyMarker) }

ToolPool ==
    [name : ReadNamePool, description : DescriptionPool]
      \cup [name : WriteNamePool, description : {Some(ListIssuesText)}]
      \cup { [name |-> Chars("create_issue"),
              description |-> Some(UpdateIssueText \o EnhanceSuffix)] }

\* the names tool calls ask for: the read names and one that is never registered
CallNamePool == ReadNamePool \cup {Chars("get_nothing")}

\* each tool is registered with its own handler: that of get_users calls
\* apiClient.get('/users') once, every other tool answers as test_connection
\* does, without a request
RegistrationPool ==
    { [tool |-> tool,
       handler |-> IF tool.name = Chars("get_users") THEN "get_users" ELSE "test_connection"] :
        tool \in ToolPool }

ArgKeyPool ==
    { Chars("userId"), Chars("updated"), Chars("Update_flag"), Chars("PUT"),
      Chars("add_") }

ArgsPool == {a \in SUBSET ArgKeyPool : Cardinality(a) <= MaxArgKeys}

DataPool == {"users-a", "users-b"}

ErrorReplyPool ==
    { HttpError(401, None, Some(Chars("Unauthorized")), Chars("Request failed with status code 401")),
      HttpError(404, None, None, Chars("Request failed with status code 404")),
      HttpError(429, None, None, Chars("Request failed with status code 429")),
      HttpError(429, Some(Chars("1")), None, Chars("Request failed with status code 429")),
      HttpError(429, Some(Chars("120")), None, Chars("Request failed with status code 429")),
      HttpError(429, Some(Chars("Wed, 21 Oct 2026 07:28:00 GMT")), None,
                Chars("Request failed with status code 429")),
      HttpError(500, None, None, Chars("Request failed with status code 500")),
      NetworkFailure("ECONNRESET", Chars("socket hang up")),
      NetworkFailure("ENOTFOUND", Chars("getaddrinfo ENOTFOUND")),
      OtherFailure(Chars("Unexpected token")) }

ReplyPool == {OkReply(d) : d \in DataPool} \cup ErrorReplyPool

\* the replies to the requests of tool calls: one of each kind
ToolReplyPool ==
    { OkReply("users-a"),
      HttpError(401, None, Some(Chars("Unauthorized")), Chars("Request failed with status code 401")),
      HttpError(429, Some(Chars("1")), None, Chars("Request failed with status code 429")),
      HttpError(500, None, None, Chars("Request failed with status code 500")),
      NetworkFailure("ECONNRESET", Chars("socket hang up")) }

\* process.env as loadConfig reads it
EnvironmentPool ==
    [BACKLOG_DOMAIN : {None, Some(Chars("env.backlog.com"))},
     BACKLOG_API_KEY : {None, Some(Chars("env-api-key"))},
     BACKLOG_DEFAULT_PROJECT : {None, Some(<<>>), Some(Chars("ENV"))},
     BACKLOG_MAX_RETRIES : {None, Some(<<>>), Some(Chars("2"))},
     BACKLOG_TIMEOUT : {None, Some(Chars("20000"))},
     BACKLOG_CONFIG_PATH : {None, Some(Chars("/ws/custom.env")), Some(Chars("/ws/missing.env"))}]

\* workspace files, each a sequence of lines (content.split('\n'))
FileAll ==
    << Chars("BACKLOG_DOMAIN=ws.backlog.com"), Chars("BACKLOG_API_KEY=ws-api-key"),
       Chars("BACKLOG_DEFAULT_PROJECT=WS"), Chars("BACKLOG_MAX_RETRIES=7"),
       Chars("BACKLOG_TIMEOUT=50000") >>
FileSettings ==
    << Chars("BACKLOG_DEFAULT_PROJECT=WS_PROJ"), Chars("BACKLOG_MAX_RETRIES=7") >>
FileCredentials ==
    << Chars("BACKLOG_DOMAIN=ws.backlog.com"), Chars("BACKLOG_API_KEY=ws-api-key") >>
FileEnvFormat ==
    << Chars("# Backlog settings"), <<>>,
       Chars("BACKLOG_DEFAULT_PROJECT=ENV_FORMAT_PROJ"),
       Chars("BACKLOG_MAX_RETRIES=") \o <<"U0022">> \o Chars("8") \o <<"U0022">>,
       Chars("BACKLOG_TIMEOUT='60000'"),
       Chars("BACKLOG_CUSTOM_SETTING=value_with_equals=sign"), <<>> >>
FileEmptyValues ==
    << Chars("BACKLOG_DOMAIN="), Chars("BACKLOG_DEFAULT_PROJECT="),
       Chars("BACKLOG_MAX_RETRIES="), Chars("BACKLOG_TIMEOUT=''") >>
FileOdd ==
    << Chars("  BACKLOG_TIMEOUT = 45000 "), Chars("NOEQUALS"), Chars("=novalue"),
       Chars("BACKLOG_MAX_RETRIES=5"), Chars("BACKLOG_MAX_RETRIES=6"),
       Chars("BACKLOG_API_KEY=k=e=y") >>
FileNotNumbers ==
    << Chars("BACKLOG_MAX_RETRIES=abc"), Chars("BACKLOG_TIMEOUT=12s") >>

FileQuotes ==
    << Chars("BACKLOG_DOMAIN=") \o <<"U0022">> \o Chars("ws.backlog.com"),
       Chars("  BACKLOG_API_KEY = 'key=with=equals'  "),
       Chars("BACKLOG_DEFAULT_PROJECT=") \o <<"U0022", "U0022">> \o Chars("P")
         \o <<"U0022", "U0022">>,
       Chars("#BACKLOG_TIMEOUT=1"), Chars("BACKLOG_TIMEOUT"),
       Chars("BACKLOG_MAX_RETRIES= 4 ") >>

FilePool ==
    { FileAll, FileSettings, FileCredentials, FileEnvFormat, FileEmptyValues,
      FileOdd, FileNotNumbers, FileQuotes }

\* the files on disk: none, one at the default path, or one at the custom path
FileSystemPool ==
    {<<>>}
      \cup {[path \in {DefaultConfigPath} |-> f] : f \in FilePool}
      \cup {[path \in {Chars("/ws/custom.env")} |-> f] : f \in FilePool}

\* ------------------------------------------------------------------- state

VARIABLES
    tools,           \* ToolRegistry.tools: name -> Tool
    handlers,        \* ToolRegistry.handlers: name -> wrapped handler
    maxRetries,      \* BacklogApiClient.config.maxRetries
    op,              \* the operation running, or the last one run
    pc,              \* "idle", or "inflight": a request of get() awaits its reply
    attempt,         \* executeWithRetry's attempt
    wire,            \* the HTTP requests sent during op, in order
    waits,           \* the delays awaited during op, in order
    last,            \* the last reply get() received during op
    handlerInvoked,  \* whether op invoked a registered tool's own handler
    outcome,         \* how op ended
    environment,     \* process.env
    fileSystem,      \* the workspace files on disk: path -> lines
    _config,         \* ConfigManager._config: None, or Some(configuration)
    returned,        \* the configuration op returned, None when it returned none
    call,            \* the arguments op was called with
    answer,          \* the string op returned, None when it returned none
    request,         \* the endpoint and query parameters get() was called with
    server,          \* how far main() has come
    logLevel,        \* logger's logLevel
    console          \* what the logger has written to stdout and to stderr

vars == <<tools, handlers, maxRetries, op, pc, attempt, wire, waits, last,
          handlerInvoked, outcome, environment, fileSystem, _config, returned, call,
          answer, request, server, logLevel, console>>

registry == <<tools, handlers>>
clientVars == <<maxRetries, pc, attempt, wire, waits, last, handlerInvoked, request>>
configVars == <<environment, fileSystem, _config, returned, answer>>
hostVars == <<server, logLevel, console>>

\* the arguments of registerTool(tool, handler) and executeTool(name, args)
NoCall ==
    [tool |-> [name |-> <<>>, description |-> None], handler |-> "",
     name |-> <<>>, args |-> {}]
Registering(tool, handler) == [NoCall EXCEPT !.tool = tool, !.handler = handler]
Executing(name, args) == [NoCall EXCEPT !.name = name, !.args = args]

\* the query parameters of a request: name -> value
NoParams == <<>>
NoRequest == [endpoint |-> "", params |-> NoParams]

\* main() has not been called
NotStarted == [phase |-> "none", exitCode |-> None, isValidApiKey |-> None]

\* enum LogLevel
LogLevelERROR == 0
LogLevelWARN == 1
LogLevelINFO == 2
LogLevelDEBUG == 3

\* nothing written to stdout or stderr
NoOutput == [stdout |-> <<>>, stderr |-> <<>>]

Pending == [status |-> "pending", error |-> NoError, data |-> ""]
Ok(data) == [status |-> "ok", error |-> NoError, data |-> data]
Failed(error) == [status |-> "error", error |-> error, data |-> ""]

Count429 == Cardinality({i \in DOMAIN wire : wire[i].via = "resend"})

InitWith(retries, environments, fileSystems) ==
    /\ environment \in environments
    /\ fileSystem \in fileSystems
    /\ _config = None
    /\ returned = None
    /\ answer = None
    /\ call = NoCall
    /\ tools = <<>>
    /\ handlers = <<>>
    /\ maxRetries \in retries
    /\ op = "none"
    /\ pc = "idle"
    /\ attempt = 0
    /\ wire = <<>>
    /\ waits = <<>>
    /\ last = NoReply
    /\ handlerInvoked = FALSE
    /\ outcome = [status |-> "none", error |-> NoError, data |-> ""]
    /\ request = NoRequest
    /\ server = NotStarted
    /\ logLevel = LogLevelINFO
    /\ console = NoOutput

\* an operation ends without calling get()
End(name, result, invoked) ==
    /\ op' = name
    /\ pc' = "idle"
    /\ attempt' = 0
    /\ wire' = <<>>
    /\ waits' = <<>>
    /\ last' = NoReply
    /\ handlerInvoked' = invoked
    /\ outcome' = result
    /\ request' = NoRequest
    /\ UNCHANGED <<maxRetries, hostVars>>

\* a synchronous operation, or one that ends without calling get(), and
\* does not touch the configuration
Finish(name, result, invoked) ==
    End(name, result, invoked) /\ UNCHANGED configVars

\* get(endpoint, params): executeWithRetry's first attempt sends its request
SendGet(name, invoked, endpoint, params) ==
    /\ op' = name
    /\ request' = [endpoint |-> endpoint, params |-> params]
    /\ pc' = "inflight"
    /\ attempt' = 1
    /\ wire' = <<AxiosGet>>
    /\ waits' = <<>>
    /\ last' = NoReply
    /\ handlerInvoked' = invoked
    /\ outcome' = Pending
    /\ UNCHANGED <<maxRetries, hostVars>>

BeginGetWith(name, invoked, endpoint, params) ==
    SendGet(name, invoked, endpoint, params) /\ UNCHANGED configVars

\* apiClient.get('/users') of get_users, get('/users/myself') of validateApiKey
BeginGet(name, invoked) ==
    BeginGetWith(name, invoked,
                 IF name = "executeTool" THEN "/users" ELSE "/users/myself", NoParams)

\* wrapHandlerWithReadOnlyCheck(handler, toolName)
wrapHandlerWithReadOnlyCheck(handler, toolName) ==
    [handler |-> handler, toolName |-> toolName]

MapSet(m, k, v) == [x \in DOMAIN m \cup {k} |-> IF x = k THEN v ELSE m[x]]

registerTool(tool, handler) ==
    /\ pc = "idle"
    /\ call' = Registering(tool, handler)
    /\ LET error == validateReadOnlyTool(tool)
           enhancedTool == enhanceToolDescription(tool)
       IN IF error # NoError
          THEN /\ UNCHANGED registry
               /\ Finish("registerTool", Failed(error), FALSE)
          ELSE /\ tools' = MapSet(tools, enhancedTool.name, enhancedTool)
               /\ handlers' = MapSet(handlers, enhancedTool.name,
                                 wrapHandlerWithReadOnlyCheck(handler, enhancedTool.name))
               /\ Finish("registerTool", Ok(""), FALSE)

\* getTools(), hasTool(name), getToolStats()
getTools == {tools[n] : n \in DOMAIN tools}
hasTool(name) == name \in DOMAIN tools
getToolStats ==
    [totalTools |-> Cardinality(DOMAIN tools),
     toolNames |-> DOMAIN tools,
     readOnlyTools |-> Cardinality({n \in DOMAIN tools :
                          Includes(DescriptionOf(tools[n]), ReadOnlyMarker)})]

\* executeTool(name, args): the wrapped handler checks the argument keys and
\* then runs the tool's own handler
executeTool(name, args) ==
    /\ pc = "idle"
    /\ call' = Executing(name, args)
    /\ UNCHANGED registry
    /\ IF name \notin DOMAIN handlers
       THEN Finish("executeTool", Failed(MkError("Error", UnknownToolPrefix \o name)), FALSE)
       ELSE IF hasWriteParam(args)
       THEN Finish("executeTool",
                   Failed(MkError("ReadOnlyViolationError",
                                  ViolationPrefix \o handlers[name].toolName
                                    \o ParamViolationSuffix)),
                   FALSE)
       ELSE IF handlers[name].handler = "get_users"
       THEN BeginGet("executeTool", TRUE)
       ELSE Finish("executeTool", Ok("connection"), TRUE)

\* get(endpoint, params) called directly (validateApiKey calls get('/users/myself'))
get ==
    /\ pc = "idle"
    /\ call' = NoCall
    /\ UNCHANGED registry
    /\ BeginGet("get", FALSE)

\* a post() that sends its request
postSends ==
    /\ pc = "idle"
    /\ call' = NoCall
    /\ UNCHANGED registry
    /\ BeginGet("post", FALSE)

\* post(), put(), delete()
post ==
    /\ pc = "idle"
    /\ call' = NoCall
    /\ UNCHANGED registry
    /\ Finish("post",
              Failed(MkError("ReadOnlyViolationError",
                             ServerIsReadOnly \o Chars("POST") \o RequestNotAllowed)),
              FALSE)

put ==
    /\ pc = "idle"
    /\ call' = NoCall
    /\ UNCHANGED registry
    /\ Finish("put",
              Failed(MkError("ReadOnlyViolationError",
                             ServerIsReadOnly \o Chars("PUT") \o RequestNotAllowed)),
              FALSE)

delete ==
    /\ pc = "idle"
    /\ call' = NoCall
    /\ UNCHANGED registry
    /\ Finish("delete",
              Failed(MkError("ReadOnlyViolationError",
                             ServerIsReadOnly \o Chars("DELETE") \o RequestNotAllowed)),
              FALSE)

\* what getConfig() gives a method of the manager that calls it: the cached
\* configuration, or the one loadConfig() resolves now, or loadConfig's error
GetConfigResult ==
    IF _config # None
    THEN [error |-> NoError, config |-> _config[1]]
    ELSE ResolveConfig(environment, fileSystem)

\* the cache after that getConfig()
CacheAfter(got) == IF got.error = NoError THEN Some(got.config) ELSE None

\* 'プロジェクトIDまたはキーが指定されておらず、デフォルトプロジェクトも設定されていません。'
MsgNoProject ==
    <<"U30D7", "U30ED", "U30B8", "U30A7", "U30AF", "U30C8">> \o Chars("ID")
      \o <<"U307E", "U305F", "U306F", "U30AD", "U30FC", "U304C", "U6307", "U5B9A",
           "U3055", "U308C", "U3066", "U304A", "U3089", "U305A", "U3001", "U30C7",
           "U30D5", "U30A9", "U30EB", "U30C8", "U30D7", "U30ED", "U30B8", "U30A7",
           "U30AF", "U30C8", "U3082", "U8A2D", "U5B9A", "U3055", "U308C", "U3066",
           "U3044", "U307E", "U305B", "U3093", "U3002">>

\* ------------------------------------------------------------ tool handlers

\* '課題一覧の取得に失敗しました: ', '課題コメントの取得に失敗しました: '
GetIssuesFailed ==
    <<"U8AB2", "U984C", "U4E00", "U89A7", "U306E", "U53D6", "U5F97", "U306B", "U5931",
      "U6557", "U3057", "U307E", "U3057", "U305F">> \o Chars(": ")
GetIssueCommentsFailed ==
    <<"U8AB2", "U984C", "U30B3", "U30E1", "U30F3", "U30C8", "U306E", "U53D6", "U5F97",
      "U306B", "U5931", "U6557", "U3057", "U307E", "U3057", "U305F">> \o Chars(": ")

\* 'の取得に失敗しました: ' and '一覧の取得に失敗しました: '
FetchFailed ==
    <<"U306E", "U53D6", "U5F97", "U306B", "U5931", "U6557", "U3057", "U307E", "U3057",
      "U305F">> \o Chars(": ")
ListFetchFailed == <<"U4E00", "U89A7">> \o FetchFailed

\* the tools that take an optional projectIdOrKey: the endpoint each one
\* gets, with {} for the resolved project, and the message that begins its
\* own failure
ProjectTools ==
    [get_project |->
        [path |-> "/projects/{}",
         failed |-> <<"U30D7", "U30ED", "U30B8", "U30A7", "U30AF", "U30C8">> \o FetchFailed],
     get_project_users |->
        [path |-> "/projects/{}/users",
         failed |-> <<"U30D7", "U30ED", "U30B8", "U30A7", "U30AF", "U30C8", "U30E1",
                      "U30F3", "U30D0", "U30FC">> \o FetchFailed],
     get_wikis |->
        [path |-> "/projects/{}/wikis", failed |-> Chars("Wiki") \o ListFetchFailed],
     get_statuses |->
        [path |-> "/projects/{}/statuses",
         failed |-> <<"U30B9", "U30C6", "U30FC", "U30BF", "U30B9">> \o ListFetchFailed],
     get_resolutions |->
        [path |-> "/projects/{}/resolutions",
         failed |-> <<"U5B8C", "U4E86", "U7406", "U7531">> \o ListFetchFailed],
     get_categories |->
        [path |-> "/projects/{}/categories",
         failed |-> <<"U30AB", "U30C6", "U30B4", "U30EA">> \o ListFetchFailed]]

\* 'デフォルトプロジェクト'
DefaultProjectWords ==
    <<"U30C7", "U30D5", "U30A9", "U30EB", "U30C8", "U30D7", "U30ED", "U30B8", "U30A7",
      "U30AF", "U30C8">>

\* a count that is sent as it was asked
KeepCount(count) == count

\* Math.min(count, 100)
LimitCount(count) == Min(count, 100)

\* a destructuring default: `x = d` takes d when x is undefined
Default(v, d) == IF v = None THEN d ELSE v[1]

\* a project choice that never falls back to the configured default
IssuesProjectExplicitOnly(projectId, defaultProject) ==
    IF Truthy(projectId) THEN projectId ELSE None

\* get_issues: the explicit projectId, else the default project when
\* hasDefaultProject(), else none
IssuesProject(projectId, defaultProject) ==
    IF Truthy(projectId) THEN projectId
    ELSE IF Truthy(defaultProject) THEN defaultProject
    ELSE None

\* the query parameters get_issues builds from projectId, offset and count
GetIssuesParams(resolvedProjectId, offset, count) ==
    LET keys == {"offset", "count"}
                  \cup (IF Truthy(resolvedProjectId) THEN {"projectId"} ELSE {})
    IN [k \in keys |->
          CASE k = "projectId" -> <<resolvedProjectId[1]>>
            [] k = "offset" -> offset
            [] k = "count" -> LimitCount(count)]

\* the query parameters get_issue_comments builds from count and order
GetIssueCommentsParams(count, order) ==
    [k \in {"count", "order"} |-> IF k = "count" THEN LimitCount(count) ELSE order]

\* a catch block that wraps every error
AlwaysWrap(failed, error) == MkError("Error", failed \o error.message)

\* the catch block of a project tool: an error whose message includes
\* 'デフォルトプロジェクト' is rethrown, any other is wrapped in a new Error
RethrowOrWrap(failed, error) ==
    IF Includes(error.message, DefaultProjectWords)
    THEN error
    ELSE MkError("Error", failed \o error.message)

\* resolveProjectIdOrKey(projectIdOrKey) as a handler sees it: its value, or
\* its error
ResolveProject(projectIdOrKey, got) ==
    IF Truthy(projectIdOrKey)
    THEN [error |-> NoError, value |-> projectIdOrKey[1]]
    ELSE IF got.error # NoError
    THEN [error |-> got.error, value |-> <<>>]
    ELSE IF ~Truthy(got.config.defaultProject)
    THEN [error |-> MkError("Error", MsgNoProject), value |-> <<>>]
    ELSE [error |-> NoError, value |-> got.config.defaultProject[1]]

\* a tool result that carries isDefaultProject
ToolOk(data, isDefaultProject) ==
    [status |-> "ok", error |-> NoError, data |-> data,
     isDefaultProject |-> isDefaultProject]

\* !projectId && configManager.hasDefaultProject(), after the get(): the
\* result, or the handler's failure when getConfig() throws
WithIsDefaultProject(data, projectId, failed) ==
    IF Truthy(projectId)
    THEN ToolOk(data, FALSE)
    ELSE IF GetConfigResult.error # NoError
    THEN Failed(MkError("Error", failed \o GetConfigResult.error.message))
    ELSE ToolOk(data, Truthy(GetConfigResult.config.defaultProject))

\* how the caller of get() ends: the get_users handler wraps a failure in a
\* new Error, a direct caller sees get()'s own result
EndGet(result) ==
    IF op = "executeTool"
    THEN IF result.status = "error"
         THEN Failed(MkError("Error", GetUsersFailed \o result.error.message))
         ELSE result
    ELSE IF op = "get_issues"
    THEN IF result.status = "error"
         THEN Failed(MkError("Error", GetIssuesFailed \o result.error.message))
         ELSE WithIsDefaultProject(result.data, call.args.projectId, GetIssuesFailed)
    ELSE IF op = "get_issue_comments"
    THEN IF result.status = "error"
         THEN Failed(MkError("Error", GetIssueCommentsFailed \o result.error.message))
         ELSE result
    ELSE IF op \in DOMAIN ProjectTools
    THEN IF result.status = "error"
         THEN Failed(RethrowOrWrap(ProjectTools[op].failed, result.error))
         ELSE WithIsDefaultProject(result.data, call.args.projectIdOrKey,
                                   ProjectTools[op].failed)
    ELSE result

\* the reply to the request in flight arrives: the response interceptor
\* (handleError) and then executeWithRetry act on it
Respond(reply) ==
    /\ pc = "inflight"
    /\ reply.status = 429 => Count429 < Max429
    /\ last' = reply
    /\ UNCHANGED <<registry, maxRetries, op, handlerInvoked, configVars, call, request, hostVars>>
    /\ IF reply.kind = "ok"
       THEN \* requestFn returns response.data
            /\ pc' = "idle"
            /\ outcome' = EndGet(Ok(reply.data))
            /\ UNCHANGED <<attempt, wire, waits>>
       ELSE IF reply.status = 429
       THEN \* handleError: wait, then resend error.config
            /\ waits' = Append(waits, [kind |-> "rateLimit",
                                        ms |-> RateLimitWait(RetryAfterOf(reply))])
            /\ wire' = Append(wire, AxiosResend(wire[Len(wire)]))
            /\ UNCHANGED <<pc, attempt, outcome>>
       ELSE IF attempt <= maxRetries /\ shouldRetry(reply)
       THEN \* executeWithRetry: back off, then the next attempt
            /\ waits' = Append(waits, [kind |-> "backoff",
                                        ms |-> Num(calculateBackoffDelay(attempt))])
            /\ attempt' = attempt + 1
            /\ wire' = Append(wire, AxiosGet)
            /\ UNCHANGED <<pc, outcome>>
       ELSE /\ pc' = "idle"
            /\ outcome' = EndGet(Failed(convertToBacklogError(reply)))
            /\ UNCHANGED <<attempt, wire, waits>>

NextRegistry ==
    \/ \E r \in RegistrationPool : registerTool(r.tool, r.handler)
    \/ \E name \in CallNamePool, args \in ArgsPool : executeTool(name, args)
    \/ \E reply \in ToolReplyPool : Respond(reply)

NextClient ==
    \/ get
    \/ post
    \/ put
    \/ delete
    \/ \E reply \in ReplyPool : Respond(reply)

\* ----------------------------------------------------- tool handler calls

\* the get_issues handler, called with { projectId?, offset?, count? }
get_issues(args) ==
    /\ pc = "idle"
    /\ call' = Executing(Chars("get_issues"), args)
    /\ UNCHANGED registry
    /\ LET consulted == ~Truthy(args.projectId)
           got == GetConfigResult
       IN IF consulted /\ got.error # NoError
          THEN Finish("get_issues",
                      Failed(MkError("Error", GetIssuesFailed \o got.error.message)), TRUE)
          ELSE /\ SendGet("get_issues", TRUE, "/issues",
                          GetIssuesParams(
                              IssuesProject(args.projectId,
                                            IF consulted THEN got.config.defaultProject
                                            ELSE None),
                              Default(args.offset, 0), Default(args.count, 20)))
               /\ _config' = IF consulted THEN CacheAfter(got) ELSE _config
               /\ UNCHANGED <<environment, fileSystem, returned, answer>>

\* the get_issue_comments handler, called with { issueIdOrKey, count?, order? }
get_issue_comments(args) ==
    /\ pc = "idle"
    /\ call' = Executing(Chars("get_issue_comments"), args)
    /\ UNCHANGED registry
    /\ BeginGetWith("get_issue_comments", TRUE,
                    [path |-> "/issues/{}/comments", of |-> args.issueIdOrKey],
                    GetIssueCommentsParams(Default(args.count, 20),
                                           Default(args.order, "asc")))

\* the handler of a tool of ProjectTools, called with { projectIdOrKey? }
ProjectTool(name, args) ==
    /\ pc = "idle"
    /\ call' = Executing(Chars(name), args)
    /\ UNCHANGED registry
    /\ LET consulted == ~Truthy(args.projectIdOrKey)
           got == GetConfigResult
           resolved == ResolveProject(args.projectIdOrKey, got)
       IN /\ _config' = IF consulted THEN CacheAfter(got) ELSE _config
          /\ UNCHANGED <<environment, fileSystem, returned, answer>>
          /\ IF resolved.error # NoError
             THEN End(name, Failed(RethrowOrWrap(ProjectTools[name].failed, resolved.error)),
                      TRUE)
             ELSE SendGet(name, TRUE,
                          [path |-> ProjectTools[name].path, of |-> resolved.value],
                          NoParams)

get_project(args) == op' = "get_project" /\ ProjectTool("get_project", args)
get_project_users(args) == op' = "get_project_users" /\ ProjectTool("get_project_users", args)
get_wikis(args) == op' = "get_wikis" /\ ProjectTool("get_wikis", args)
get_statuses(args) == op' = "get_statuses" /\ ProjectTool("get_statuses", args)
get_resolutions(args) == op' = "get_resolutions" /\ ProjectTool("get_resolutions", args)
get_categories(args) == op' = "get_categories" /\ ProjectTool("get_categories", args)

\* the arguments the tools are called with
CountPool == {None, Some(50), Some(100), Some(101)}
ProjectIdPool == {None, Some(<<>>), Some(Chars("CUSTOM"))}
GetIssuesArgsPool ==
    [projectId : ProjectIdPool, offset : {None, Some(40)}, count : CountPool]
GetIssueCommentsArgsPool ==
    [issueIdOrKey : {Chars("TEST-1")}, count : CountPool, order : {None, Some("desc")}]
ProjectToolArgsPool == [projectIdOrKey : ProjectIdPool]

\* ------------------------------------------------------ MCP call handler

\* '読み取り専用制限: ', '認証エラー: ', '接続エラー: '
McpReadOnlyPrefix ==
    <<"U8AAD", "U307F", "U53D6", "U308A", "U5C02", "U7528", "U5236", "U9650">> \o Chars(": ")
McpAuthenticationPrefix == <<"U8A8D", "U8A3C", "U30A8", "U30E9", "U30FC">> \o Chars(": ")
McpNetworkPrefix == <<"U63A5", "U7D9A", "U30A8", "U30E9", "U30FC">> \o Chars(": ")

McpError(code, message) == [class |-> "McpError", code |-> code, message |-> message]

\* the catch block of the CallToolRequestSchema handler: the McpError thrown
\* for an error of executeTool, chosen by the error's class
toMcpError(error) ==
    IF error.class = "ReadOnlyViolationError"
    THEN McpError("MethodNotFound", McpReadOnlyPrefix \o error.message)
    ELSE IF error.class = "AuthenticationError"
    THEN McpError("InvalidRequest", McpAuthenticationPrefix \o error.message)
    ELSE IF error.class = "NetworkError"
    THEN McpError("InternalError", McpNetworkPrefix \o error.message)
    ELSE McpError("InternalError", error.message)

\* what the CallToolRequestSchema handler answers for the executeTool call
\* that has ended: the content of its result, or the McpError it throws
CallToolResponse ==
    IF outcome.status = "error"
    THEN [isError |-> TRUE, error |-> toMcpError(outcome.error), content |-> ""]
    ELSE [isError |-> FALSE, error |-> McpError("", <<>>), content |-> outcome.data]

\* ----------------------------------------------------------------- logger

\* console.error and console.warn write their line to stderr
ConsoleError(line) == [console EXCEPT !.stderr = Append(@, line)]
ConsoleWarn(line) == [console EXCEPT !.stderr = Append(@, line)]
\* console.log writes its line to stdout
ConsoleLog(line) == [console EXCEPT !.stdout = Append(@, line)]

\* `[${level}] ${timestamp} ${message}`, the timestamp left out
LogLine(level, message) == Chars("[") \o level \o Chars("] ") \o message

\* what a log function leaves alone; the output is followed for MaxLogLines lines
LoggerCall(name) ==
    /\ pc = "idle"
    /\ Len(console.stdout) + Len(console.stderr) < MaxLogLines
    /\ op' = name
    /\ UNCHANGED <<registry, clientVars, configVars, server, outcome, call>>

\* error(message), warn(message), info(message), debug(message)
LoggerError(message) ==
    console' = IF logLevel >= LogLevelERROR
               THEN ConsoleError(LogLine(Chars("ERROR"), message))
               ELSE console
LoggerWarn(message) ==
    console' = IF logLevel >= LogLevelWARN
               THEN ConsoleWarn(LogLine(Chars("WARN"), message))
               ELSE console
LoggerInfo(message) ==
    console' = IF logLevel >= LogLevelINFO
               THEN ConsoleLog(LogLine(Chars("INFO"), message))
               ELSE console
LoggerDebug(message) ==
    console' = IF logLevel >= LogLevelDEBUG
               THEN ConsoleLog(LogLine(Chars("DEBUG"), message))
               ELSE console

setLogLevel(level) ==
    /\ pc = "idle"
    /\ op' = "setLogLevel"
    /\ logLevel' = level
    /\ logLevel' # logLevel
    /\ UNCHANGED <<registry, clientVars, configVars, server, outcome, call, console>>

logger_error(message) ==
    LoggerCall("logger.error") /\ LoggerError(message) /\ UNCHANGED logLevel
logger_warn(message) ==
    LoggerCall("logger.warn") /\ LoggerWarn(message) /\ UNCHANGED logLevel
logger_info(message) ==
    LoggerCall("logger.info") /\ LoggerInfo(message) /\ UNCHANGED logLevel
logger_debug(message) ==
    LoggerCall("logger.debug") /\ LoggerDebug(message) /\ UNCHANGED logLevel

\* 'API操作: '
MsgApiOperation == Chars("API") \o <<"U64CD", "U4F5C">> \o Chars(": ")
\* '設定を読み込みました: '
MsgConfigLoaded ==
    <<"U8A2D", "U5B9A", "U3092", "U8AAD", "U307F", "U8FBC", "U307F", "U307E", "U3057",
      "U305F">> \o Chars(": ")
\* '設定の読み込みに失敗しました: '
MsgConfigNotLoaded ==
    <<"U8A2D", "U5B9A", "U306E", "U8AAD", "U307F", "U8FBC", "U307F", "U306B", "U5931",
      "U6557", "U3057", "U307E", "U3057", "U305F">> \o Chars(": ")
\* 'レート制限に達しました。'
MsgRateLimited ==
    <<"U30EC", "U30FC", "U30C8", "U5236", "U9650", "U306B", "U9054", "U3057", "U307E",
      "U3057", "U305F", "U3002">>

\* logApiOperation(operation, endpoint): info(`API操作: ${operation} ${endpoint}`)
logApiOperation(operation, endpoint) ==
    /\ LoggerCall("logger.logApiOperation")
    /\ LoggerInfo(MsgApiOperation \o operation \o Chars(" ") \o endpoint)
    /\ UNCHANGED logLevel

\* logError(context, err): error(`${context}: ${errorMessage}`)
logError(context, err) ==
    /\ LoggerCall("logger.logError")
    /\ LoggerError(context \o Chars(": ") \o err)
    /\ UNCHANGED logLevel

\* logRateLimit(retryAfter, attempt): warn('レート制限に達しました。...')
logRateLimit ==
    /\ LoggerCall("logger.logRateLimit")
    /\ LoggerWarn(MsgRateLimited)
    /\ UNCHANGED logLevel

\* logConfigLoad(source, success): info when it succeeded, warn when not
logConfigLoad(source, success) ==
    /\ LoggerCall("logger.logConfigLoad")
    /\ IF success
       THEN LoggerInfo(MsgConfigLoaded \o source)
       ELSE LoggerWarn(MsgConfigNotLoaded \o source)
    /\ UNCHANGED logLevel

LogMessagePool == { Chars("started") }

NextLogger ==
    \/ \E level \in {LogLevelERROR, LogLevelWARN, LogLevelINFO, LogLevelDEBUG} :
          setLogLevel(level)
    \/ \E message \in LogMessagePool : logger_error(message)
    \/ \E message \in LogMessagePool : logger_warn(message)
    \/ \E message \in LogMessagePool : logger_info(message)
    \/ \E message \in LogMessagePool : logger_debug(message)
    \/ logApiOperation(Chars("GET"), Chars("/users"))
    \/ logError(Chars("main"), Chars("timeout"))
    \/ logRateLimit
    \/ \E success \in BOOLEAN : logConfigLoad(Chars(".backlog-mcp.env"), success)

\* the replies to a get() whose backoff is followed to its ceiling
BackoffReplyPool ==
    { OkReply("users-a"),
      HttpError(404, None, None, Chars("Request failed with status code 404")),
      HttpError(429, Some(Chars("1")), None, Chars("Request failed with status code 429")),
      HttpError(503, None, None, Chars("Request failed with status code 503")),
      NetworkFailure("ECONNRESET", Chars("socket hang up")) }

NextBackoff ==
    \/ get
    \/ \E reply \in BackoffReplyPool : Respond(reply)

\* a loadConfig() that resolves the configuration at every call
LoadAlways ==
    /\ pc = "idle"
    /\ call' = NoCall
    /\ answer' = None
    /\ UNCHANGED <<registry, clientVars, hostVars, environment, fileSystem>>
    /\ LET resolved == ResolveConfig(environment, fileSystem)
       IN IF resolved.error # NoError
          THEN /\ outcome' = Failed(resolved.error)
               /\ returned' = None
               /\ UNCHANGED _config
          ELSE /\ _config' = Some(resolved.config)
               /\ returned' = Some(resolved.config)
               /\ outcome' = Ok("")

\* loadConfig(): the cached configuration, or the one resolved now
LoadOrCached ==
    /\ pc = "idle"
    /\ call' = NoCall
    /\ answer' = None
    /\ UNCHANGED <<registry, clientVars, hostVars, environment, fileSystem>>
    /\ IF _config # None
       THEN /\ returned' = _config
            /\ outcome' = Ok("")
            /\ UNCHANGED _config
       ELSE LET resolved == ResolveConfig(environment, fileSystem)
            IN IF resolved.error # NoError
               THEN /\ outcome' = Failed(resolved.error)
                    /\ returned' = None
                    /\ UNCHANGED _config
               ELSE /\ _config' = Some(resolved.config)
                    /\ returned' = Some(resolved.config)
                    /\ outcome' = Ok("")

loadConfig ==
    /\ op' = "loadConfig"
    /\ LoadOrCached

\* getConfig(): this._config, or loadConfig() when nothing is cached
getConfig ==
    /\ op' = "getConfig"
    /\ LoadOrCached

\* reset()
reset ==
    /\ pc = "idle"
    /\ op' = "reset"
    /\ _config' = None
    /\ returned' = None
    /\ answer' = None
    /\ outcome' = Ok("")
    /\ call' = NoCall
    /\ UNCHANGED <<registry, clientVars, hostVars, environment, fileSystem>>

\* a resolution that prefers the default project to its argument
resolveDefaultFirst(projectIdOrKey) ==
    /\ pc = "idle"
    /\ op' = "resolveProjectIdOrKey"
    /\ call' = NoCall
    /\ returned' = None
    /\ UNCHANGED <<registry, clientVars, hostVars, environment, fileSystem>>
    /\ LET got == GetConfigResult
       IN /\ _config' = CacheAfter(got)
          /\ IF got.error # NoError
             THEN /\ outcome' = Failed(got.error)
                  /\ answer' = None
             ELSE IF Truthy(got.config.defaultProject)
             THEN /\ outcome' = Ok("")
                  /\ answer' = got.config.defaultProject
             ELSE IF Truthy(projectIdOrKey)
             THEN /\ outcome' = Ok("")
                  /\ answer' = projectIdOrKey
             ELSE /\ outcome' = Failed(MkError("Error", MsgNoProject))
                  /\ answer' = None

\* resolveProjectIdOrKey(projectIdOrKey?)
resolveProjectIdOrKey(projectIdOrKey) ==
    /\ pc = "idle"
    /\ op' = "resolveProjectIdOrKey"
    /\ call' = NoCall
    /\ returned' = None
    /\ UNCHANGED <<registry, clientVars, hostVars, environment, fileSystem>>
    /\ IF Truthy(projectIdOrKey)
       THEN /\ answer' = projectIdOrKey
            /\ outcome' = Ok("")
            /\ UNCHANGED _config
       ELSE LET got == GetConfigResult
            IN /\ _config' = CacheAfter(got)
               /\ IF got.error # NoError
                  THEN /\ outcome' = Failed(got.error)
                       /\ answer' = None
                  ELSE IF ~Truthy(got.config.defaultProject)
                  THEN /\ outcome' = Failed(MkError("Error", MsgNoProject))
                       /\ answer' = None
                  ELSE /\ outcome' = Ok("")
                       /\ answer' = got.config.defaultProject

\* '*'.repeat(n)
Stars(n) == [i \in 1..n |-> "*"]

\* a key that is shown as stars only
maskEveryCharacter(apiKey) == Stars(Len(apiKey))

\* the masking of getMaskedApiKey
maskApiKey(apiKey) ==
    IF Len(apiKey) <= 8
    THEN Stars(Len(apiKey))
    ELSE SubSeq(apiKey, 1, 4) \o Stars(Len(apiKey) - 8)
           \o SubSeq(apiKey, Len(apiKey) - 3, Len(apiKey))

\* getMaskedApiKey()
getMaskedApiKey ==
    /\ pc = "idle"
    /\ op' = "getMaskedApiKey"
    /\ call' = NoCall
    /\ returned' = None
    /\ UNCHANGED <<registry, clientVars, hostVars, environment, fileSystem>>
    /\ LET got == GetConfigResult
       IN /\ _config' = CacheAfter(got)
          /\ IF got.error # NoError
             THEN /\ outcome' = Failed(got.error)
                  /\ answer' = None
             ELSE /\ outcome' = Ok("")
                  /\ answer' = Some(maskApiKey(got.config.apiKey))

\* the process environment is changed (process.env.X = ..., delete process.env.X)
setEnvironment(e) ==
    /\ pc = "idle"
    /\ op' = "setEnvironment"
    /\ environment' = e
    /\ environment' # environment
    /\ outcome' = Ok("")
    /\ call' = NoCall
    /\ UNCHANGED <<registry, clientVars, hostVars, fileSystem, _config, returned, answer>>

\* the workspace file is written or removed (writeFileSync, unlinkSync)
writeWorkspaceFile(files) ==
    /\ pc = "idle"
    /\ op' = "writeWorkspaceFile"
    /\ fileSystem' = files
    /\ fileSystem' # fileSystem
    /\ outcome' = Ok("")
    /\ call' = NoCall
    /\ UNCHANGED <<registry, clientVars, hostVars, environment, _config, returned, answer>>

\* the projectIdOrKey arguments: omitted, empty, given
ProjectArgumentPool == {None, Some(<<>>), Some(Chars("EXPLICIT_PROJ"))}

NextConfig ==
    \/ loadConfig
    \/ getConfig
    \/ reset
    \/ \E p \in ProjectArgumentPool : resolveProjectIdOrKey(p)

NoEnvironment ==
    [BACKLOG_DOMAIN |-> None, BACKLOG_API_KEY |-> None,
     BACKLOG_DEFAULT_PROJECT |-> None, BACKLOG_MAX_RETRIES |-> None,
     BACKLOG_TIMEOUT |-> None, BACKLOG_CONFIG_PATH |-> None]

\* the environments and files of a process whose settings change while it runs
LiveEnvironmentPool ==
    { NoEnvironment,
      [NoEnvironment EXCEPT !.BACKLOG_DOMAIN = Some(Chars("env.backlog.com"))],
      [NoEnvironment EXCEPT !.BACKLOG_DOMAIN = Some(Chars("env.backlog.com")),
                            !.BACKLOG_API_KEY = Some(Chars("env-api-key"))],
      [NoEnvironment EXCEPT !.BACKLOG_DOMAIN = Some(Chars("test2.backlog.com")),
                            !.BACKLOG_API_KEY = Some(Chars("test-api-key-2")),
                            !.BACKLOG_MAX_RETRIES = Some(Chars("2"))],
      [NoEnvironment EXCEPT !.BACKLOG_API_KEY = Some(<<>>),
                            !.BACKLOG_CONFIG_PATH = Some(Chars("/ws/custom.env"))] }
LiveFileSystemPool ==
    { <<>>,
      [path \in {DefaultConfigPath} |-> FileSettings],
      [path \in {DefaultConfigPath} |-> FileEmptyValues],
      [path \in {Chars("/ws/custom.env")} |-> FileCredentials] }

NextConfigLive ==
    \/ loadConfig
    \/ getConfig
    \/ reset
    \/ \E e \in LiveEnvironmentPool : setEnvironment(e)
    \/ \E files \in LiveFileSystemPool : writeWorkspaceFile(files)

\* the API keys: every string of at most MaxKeyLen characters over 'k' and '*'
ApiKeyPool == UNION {[1..n -> {"k", "*"}] : n \in 0..MaxKeyLen}
MaskEnvironmentPool ==
    { [NoEnvironment EXCEPT !.BACKLOG_DOMAIN = Some(Chars("test.backlog.com")),
                            !.BACKLOG_API_KEY = Some(apiKey)] : apiKey \in ApiKeyPool }

\* ------------------------------------------------------------ main()

\* process.exit(code)
Exited(code, isValidApiKey) ==
    [phase |-> "exited", exitCode |-> Some(code), isValidApiKey |-> isValidApiKey]

\* main() awaits validateApiKey()
Validating == [phase |-> "validating", exitCode |-> None, isValidApiKey |-> None]

\* server.connect(transport) returned: list and call requests are answered
Serving == [phase |-> "serving", exitCode |-> None, isValidApiKey |-> Some(TRUE)]

\* validateApiKey(): true when get('/users/myself') returned, false when it threw
validateApiKey(result) == result.status = "ok"

\* a main() that goes on whatever validateApiKey() returned
ProceedsAnyway(isValidApiKey) == TRUE

\* `if (!isValidApiKey) throw new AuthenticationError(...)`: main() goes on
\* to the registry only with a valid key
Proceeds(isValidApiKey) == isValidApiKey

\* the tools main() registers: test_connection, whose handler sends nothing,
\* and the tools of the register...Tools functions, of which get_users stands
\* for those that call apiClient.get
ServerTools ==
    { [name |-> Chars("test_connection"), description |-> Some(Chars("Tests the connection"))],
      [name |-> Chars("get_users"), description |-> Some(ListIssuesText)] }

ServerToolNames == {tool.name : tool \in ServerTools}

ToolNamed(name) == CHOOSE tool \in ServerTools : tool.name = name

\* main() up to `await apiClient.validateApiKey()`: loadConfig(), then the
\* client is built on that configuration and sends get('/users/myself');
\* a loadConfig() that throws ends in the catch block, process.exit(1)
main ==
    /\ server.phase = "none"
    /\ pc = "idle"
    /\ op' = "main"
    /\ call' = NoCall
    /\ handlerInvoked' = FALSE
    /\ last' = NoReply
    /\ waits' = <<>>
    /\ UNCHANGED <<registry, environment, fileSystem, returned, answer, logLevel, console>>
    /\ LET got == GetConfigResult
       IN /\ _config' = CacheAfter(got)
          /\ IF got.error # NoError
             THEN /\ server' = Exited(1, None)
                  /\ outcome' = Failed(got.error)
                  /\ pc' = "idle"
                  /\ attempt' = 0
                  /\ wire' = <<>>
                  /\ request' = NoRequest
                  /\ UNCHANGED maxRetries
             ELSE /\ server' = Validating
                  /\ maxRetries' = got.config.maxRetries.n
                  /\ outcome' = Pending
                  /\ pc' = "inflight"
                  /\ attempt' = 1
                  /\ wire' = <<AxiosGet>>
                  /\ request' = [endpoint |-> "/users/myself", params |-> NoParams]

\* main() after validateApiKey(): an invalid key throws into the catch block,
\* process.exit(1); otherwise the tools are registered, the two request
\* handlers are set and server.connect(transport) either returns or throws
mainResumes ==
    /\ server.phase = "validating"
    /\ pc = "idle"
    /\ LET isValidApiKey == validateApiKey(outcome)
       IN IF ~Proceeds(isValidApiKey)
          THEN /\ server' = Exited(1, Some(isValidApiKey))
               /\ UNCHANGED registry
          ELSE /\ tools' = [name \in ServerToolNames |->
                              enhanceToolDescription(ToolNamed(name))]
               /\ handlers' = [name \in ServerToolNames |->
                                 wrapHandlerWithReadOnlyCheck(
                                    IF name = Chars("get_users") THEN "get_users"
                                    ELSE "test_connection", name)]
               /\ \E connected \in BOOLEAN :
                     server' = IF connected
                               THEN [Serving EXCEPT !.isValidApiKey = Some(isValidApiKey)]
                               ELSE Exited(1, Some(isValidApiKey))
    /\ UNCHANGED <<clientVars, op, outcome, configVars, call, logLevel, console>>

\* the ListToolsRequestSchema handler: { tools: toolRegistry.getTools() }
ListToolsRequest ==
    /\ server.phase = "serving"
    /\ pc = "idle"
    /\ call' = NoCall
    /\ UNCHANGED registry
    /\ Finish("ListToolsRequest",
              [status |-> "ok", error |-> NoError, data |-> "tools", tools |-> getTools],
              FALSE)

\* the CallToolRequestSchema handler: toolRegistry.executeTool(name, toolArgs || {})
CallToolRequest(name, args) ==
    /\ server.phase = "serving"
    /\ executeTool(name, args)

\* SIGINT or SIGTERM while the process waits for a reply or for a request:
\* process.exit(0)
SIGINT ==
    /\ \/ server.phase = "validating" /\ pc = "inflight"
       \/ server.phase = "serving"
    /\ server' = Exited(0, server.isValidApiKey)
    /\ pc' = "idle"
    /\ UNCHANGED <<registry, maxRetries, attempt, wire, waits, last, handlerInvoked,
                   request, op, outcome, configVars, call, logLevel, console>>

\* the reply to a request of the running process arrives
ServerRespond(reply) ==
    /\ server.phase \in {"validating", "serving"}
    /\ Respond(reply)

\* process.env of the server at its start: nothing set, the API key missing,
\* and both set, BACKLOG_MAX_RETRIES unset or "1"
ServerEnvironmentPool ==
    { NoEnvironment,
      [NoEnvironment EXCEPT !.BACKLOG_DOMAIN = Some(Chars("test.backlog.com"))] }
      \cup { [NoEnvironment EXCEPT !.BACKLOG_DOMAIN = Some(Chars("test.backlog.com")),
                                   !.BACKLOG_API_KEY = Some(Chars("test-api-key")),
                                   !.BACKLOG_MAX_RETRIES = retries]
               : retries \in {None, Some(Chars("1"))} }

ServerCallNamePool == ServerToolNames \cup {Chars("get_nothing")}

NextServer ==
    \/ main
    \/ mainResumes
    \/ ListToolsRequest
    \/ \E name \in ServerCallNamePool, args \in ArgsPool : CallToolRequest(name, args)
    \/ \E reply \in ToolReplyPool : ServerRespond(reply)
    \/ SIGINT

\* process.env of a server whose tools are called
ToolEnvironmentPool ==
    { [NoEnvironment EXCEPT !.BACKLOG_DOMAIN = Some(Chars("test.backlog.com")),
                            !.BACKLOG_API_KEY = Some(Chars("test-api-key")),
                            !.BACKLOG_DEFAULT_PROJECT = project]
        : project \in {None, Some(<<>>), Some(Chars("TEST"))} }
      \cup {NoEnvironment}

NextTools ==
    \/ \E args \in GetIssuesArgsPool : get_issues(args)
    \/ \E args \in GetIssueCommentsArgsPool : get_issue_comments(args)
    \/ \E args \in ProjectToolArgsPool : get_project(args)
    \/ \E args \in ProjectToolArgsPool : get_project_users(args)
    \/ \E args \in ProjectToolArgsPool : get_wikis(args)
    \/ \E args \in ProjectToolArgsPool : get_statuses(args)
    \/ \E args \in ProjectToolArgsPool : get_resolutions(args)
    \/ \E args \in ProjectToolArgsPool : get_categories(args)
    \/ \E reply \in ToolReplyPool : Respond(reply)

NextMask ==
    \/ getMaskedApiKey
    \/ reset

\* the tool registry, its tools calling a client that retries at most once
InitRegistry == InitWith(0..1, {NoEnvironment}, {<<>>})
SpecRegistry == InitRegistry /\ [][NextRegistry]_vars

\* the API client, called directly, for every retry count
InitClient == InitWith(0..MaxRetriesBound, {NoEnvironment}, {<<>>})
\* the client alone, with enough retries for the backoff to reach its ceiling
InitBackoff == InitWith(0..MaxBackoffRetries, {NoEnvironment}, {<<>>})
SpecBackoff == InitBackoff /\ [][NextBackoff]_vars

\* the logger alone
InitLogger == InitWith({0}, {NoEnvironment}, {<<>>})
SpecLogger == InitLogger /\ [][NextLogger]_vars

\* the tool handlers, each calling a client that retries at most once
InitTools == InitWith(0..1, ToolEnvironmentPool, {<<>>})
SpecTools == InitTools /\ [][NextTools]_vars

\* the process from its start: main(), then the requests it answers
InitServer == InitWith({0}, ServerEnvironmentPool, {<<>>})
SpecServer == InitServer /\ [][NextServer]_vars

SpecClient == InitClient /\ [][NextClient]_vars

\* the configuration manager, for every environment and workspace file
InitConfig == InitWith({0}, EnvironmentPool, FileSystemPool)
SpecConfig == InitConfig /\ [][NextConfig]_vars

\* the configuration manager of a process whose environment and workspace
\* file change between the calls
InitConfigLive == InitWith({0}, {NoEnvironment}, {<<>>})
SpecConfigLive == InitConfigLive /\ [][NextConfigLive]_vars

\* the masking of every API key
InitMask == InitWith({0}, MaskEnvironmentPool, {<<>>})
SpecMask == InitMask /\ [][NextMask]_vars

\* -------------------------------------------------------------- properties

\* the words of the read-only requirement, as the specification lists them
ClaimedArgumentWords ==
    { Chars("create"), Chars("add"), Chars("update"), Chars("edit"), Chars("modify"),
      Chars("delete"), Chars("remove"), Chars("post"), Chars("put"), Chars("patch") }
ClaimedNameWords ==
    ClaimedArgumentWords
      \cup { Chars("upload"), Chars("insert"), Chars("save"), Chars("write") }
ClaimedKeywords ==
    ClaimedArgumentWords
      \cup { <<"U4F5C", "U6210">>, <<"U8FFD", "U52A0">>, <<"U66F4", "U65B0">>,
             <<"U7DE8", "U96C6">>, <<"U5909", "U66F4">>, <<"U524A", "U9664">> }

BeginsWithWriteWord(name) ==
    LET lower == ToLowerCase(name)
    IN \E w \in ClaimedNameWords : StartsWith(lower, w)
ContainsWriteKeyword(description) ==
    LET lower == ToLowerCase(description)
    IN \E k \in ClaimedKeywords : Includes(lower, k)
HasWriteKey(args) ==
    \E key \in args :
        LET lower == ToLowerCase(key)
        IN \E w \in ClaimedArgumentWords :
              lower = w \/ StartsWith(lower, w \o <<"_">>)

IsReadOnlyViolation(result) ==
    result.status = "error" /\ result.error.class = "ReadOnlyViolationError"

\* C1: every HTTP request the client puts on the wire uses method GET, the
\* retries of executeWithRetry and the resend after a 429 included
C1_EveryRequestIsGet ==
    \A i \in DOMAIN wire : wire[i].method = "GET"

\* a tool call that was retried and resent after a 429
C1_Witness ==
    /\ op = "executeTool"
    /\ attempt >= 2
    /\ \E i \in DOMAIN wire : wire[i].via = "resend"

MethodOf == [post |-> Chars("POST"), put |-> Chars("PUT"), delete |-> Chars("DELETE")]

\* C2: post(), put() and delete() always reject with a ReadOnlyViolationError
\* whose message contains the read-only marker, send no request, and give the
\* same outcome after every history of calls
C2_WriteMethodsRejected ==
    op \in {"post", "put", "delete"} =>
        /\ pc = "idle"
        /\ IsReadOnlyViolation(outcome)
        /\ Includes(outcome.error.message, ReadOnlyMarker)
        /\ outcome.error.message = ServerIsReadOnly \o MethodOf[op] \o RequestNotAllowed
        /\ wire = <<>>
        /\ waits = <<>>

\* delete() has been rejected
C2_Witness ==
    /\ op = "delete"
    /\ IsReadOnlyViolation(outcome)
    /\ wire = <<>>

\* C3: executeTool on a registered tool with an argument key that equals a
\* write word or begins with one followed by '_' (case-insensitively) rejects
\* with ReadOnlyViolationError, never invokes the tool's handler and sends no
\* HTTP request
C3_WriteArgumentsRejected ==
    (op = "executeTool" /\ hasTool(call.name) /\ HasWriteKey(call.args)) =>
        /\ IsReadOnlyViolation(outcome)
        /\ ~handlerInvoked
        /\ wire = <<>>
        /\ pc = "idle"

\* a call of a registered tool was rejected for its arguments
C3_Witness ==
    /\ op = "executeTool"
    /\ IsReadOnlyViolation(outcome)
    /\ hasTool(call.name)
    /\ Chars("Update_flag") \in call.args
    /\ ~handlerInvoked
    /\ DOMAIN tools # {}

\* C4: after any sequence of registerTool calls every tool of getTools() has
\* a description containing the read-only marker, and getToolStats() counts
\* as many read-only tools as tools
C4_EveryToolMarkedReadOnly ==
    /\ \A tool \in getTools : Includes(DescriptionOf(tool), ReadOnlyMarker)
    /\ getToolStats.readOnlyTools = getToolStats.totalTools

\* two tools are registered, one of them given without a description, and
\* the last registration was rejected
C4_Witness ==
    /\ getToolStats.totalTools = 2
    /\ \E tool \in getTools : tool.description = Some(EnhanceSuffix)
    /\ op = "registerTool"
    /\ outcome.status = "error"

\* C5: registerTool rejects with ReadOnlyViolationError every tool whose name
\* begins (case-insensitively) with a write word, and a rejected registration
\* leaves the registry as it was
C5_WriteNamesRejected ==
    /\ []( (op = "registerTool" /\ BeginsWithWriteWord(call.tool.name))
              => IsReadOnlyViolation(outcome) )
    /\ [][ (op' = "registerTool" /\ outcome'.status = "error")
              => tools' = tools /\ handlers' = handlers ]_vars

\* a name written in upper case was rejected while a tool is registered
C5_Witness ==
    /\ op = "registerTool"
    /\ IsReadOnlyViolation(outcome)
    /\ call.tool.name = Chars("UPLOAD")
    /\ outcome.error.message = ViolationPrefix \o Chars("UPLOAD") \o NameViolationSuffix
    /\ DOMAIN tools # {}

\* C6: for a name that passes the name check, registerTool rejects with
\* ReadOnlyViolationError exactly when the description contains a write
\* keyword (case-insensitive substring) and lacks the read-only marker;
\* otherwise the tool is registered
C6_KeywordDescriptionsRejected ==
    /\ []( (op = "registerTool" /\ ~BeginsWithWriteWord(call.tool.name)) =>
              IF /\ ContainsWriteKeyword(DescriptionOf(call.tool))
                 /\ ~Includes(DescriptionOf(call.tool), ReadOnlyMarker)
              THEN IsReadOnlyViolation(outcome)
              ELSE /\ outcome.status = "ok"
                   /\ hasTool(call.tool.name)
                   /\ tools[call.tool.name].name = call.tool.name
                   /\ handlers[call.tool.name].handler = call.handler )
    /\ [][ (op' = "registerTool" /\ IsReadOnlyViolation(outcome'))
              => tools' = tools /\ handlers' = handlers ]_vars

\* a description with a keyword was rejected while a tool whose description
\* has a keyword and the marker is registered
C6_Witness ==
    /\ op = "registerTool"
    /\ IsReadOnlyViolation(outcome)
    /\ call.tool.description = Some(Chars("Padding of the list"))
    /\ \E tool \in getTools : ContainsWriteKeyword(DescriptionOf(tool))

\* the workspace file's value of a setting, as loadConfig reads it now
WorkspaceSetting(k) ==
    WorkspaceValue(WorkspaceLines(environment, fileSystem), ConfigKeys[k])

\* a step of loadConfig or getConfig that resolves the configuration
Resolves ==
    /\ _config = None
    /\ _config' # None
    /\ op' \in {"loadConfig", "getConfig"}

\* C7: when BACKLOG_DOMAIN or BACKLOG_API_KEY is set both in the environment
\* and in the workspace file, loadConfig returns the environment's value
C7_EnvironmentFirstForCredentials ==
    [][ Resolves =>
          /\ (Truthy(environment.BACKLOG_DOMAIN) /\ Truthy(WorkspaceSetting("domain")))
                => returned'[1].domain = environment.BACKLOG_DOMAIN[1]
          /\ (Truthy(environment.BACKLOG_API_KEY) /\ Truthy(WorkspaceSetting("apiKey")))
                => returned'[1].apiKey = environment.BACKLOG_API_KEY[1] ]_vars

\* C8: for BACKLOG_DEFAULT_PROJECT, BACKLOG_MAX_RETRIES and BACKLOG_TIMEOUT
\* loadConfig returns the workspace file's value when the file sets a
\* non-empty one, and the environment's value otherwise
C8_WorkspaceFirstForSettings ==
    [][ Resolves =>
          /\ returned'[1].defaultProject =
                IF Truthy(WorkspaceSetting("defaultProject"))
                THEN WorkspaceSetting("defaultProject")
                ELSE environment.BACKLOG_DEFAULT_PROJECT
          /\ Truthy(WorkspaceSetting("maxRetries"))
                => returned'[1].maxRetries = ParseInt(WorkspaceSetting("maxRetries")[1])
          /\ (~Truthy(WorkspaceSetting("maxRetries")) /\ Truthy(environment.BACKLOG_MAX_RETRIES))
                => returned'[1].maxRetries = ParseInt(environment.BACKLOG_MAX_RETRIES[1])
          /\ Truthy(WorkspaceSetting("timeout"))
                => returned'[1].timeout = ParseInt(WorkspaceSetting("timeout")[1])
          /\ (~Truthy(WorkspaceSetting("timeout")) /\ Truthy(environment.BACKLOG_TIMEOUT))
                => returned'[1].timeout = ParseInt(environment.BACKLOG_TIMEOUT[1]) ]_vars

\* the file and the environment set the three settings to different values
\* and loadConfig returned the file's
C8_Witness ==
    /\ op = "loadConfig"
    /\ returned # None
    /\ environment.BACKLOG_DEFAULT_PROJECT = Some(Chars("ENV"))
    /\ environment.BACKLOG_MAX_RETRIES = Some(Chars("2"))
    /\ environment.BACKLOG_TIMEOUT = Some(Chars("20000"))
    /\ returned[1].defaultProject = Some(Chars("WS"))
    /\ returned[1].maxRetries = Num(7)
    /\ returned[1].timeout = Num(50000)

\* C9: with maxRetries = N, get() sends one request per attempt: it resolves
\* with the data of the attempt that succeeded after at most N retryable
\* failures, and rejects after exactly N + 1 requests when every attempt
\* failed with a retryable error
C9_OneRequestPerAttempt ==
    op = "get" =>
        /\ Len(wire) <= maxRetries + 1
        /\ (pc = "idle" /\ outcome.status = "ok")
              => Len(wire) = attempt /\ outcome.data = last.data
        /\ (pc = "idle" /\ outcome.status = "error" /\ shouldRetry(last))
              => Len(wire) = maxRetries + 1

NonRetryable(reply) ==
    reply.kind = "http" /\ reply.status \in 400..499 /\ reply.status # 429

NonEmpty(v) == v # None /\ v[1] # <<>>

\* what resolving now, from the current environment and file, gives
Fresh == ResolveConfig(environment, fileSystem)

\* C11: after a successful loadConfig every later loadConfig and getConfig
\* returns the same configuration, whatever was changed in the environment
\* or the workspace file, until reset(); the first loadConfig or getConfig
\* after reset() resolves again from the current environment and file
C11_CachedUntilReset ==
    /\ [][ (returned # None /\ op' \in {"loadConfig", "getConfig"})
              => (returned' = returned /\ outcome'.status = "ok") ]_vars
    /\ [][ (returned = None /\ op' \in {"loadConfig", "getConfig"} /\ op' # op)
              => IF Fresh.error = NoError
                 THEN returned' = Some(Fresh.config) /\ outcome'.status = "ok"
                 ELSE returned' = None /\ outcome'.status = "error" ]_vars

\* getConfig returned a configuration that differs from what the changed
\* environment and file would give now
C11_Witness ==
    /\ op = "getConfig"
    /\ returned # None
    /\ Fresh.error = NoError
    /\ returned[1] # Fresh.config

\* C12: loadConfig throws when the workspace file and the environment
\* together give BACKLOG_DOMAIN or BACKLOG_API_KEY no non-empty value, and
\* caches nothing then; a loadConfig made when both have a value succeeds and
\* returns them
C12_MissingCredentialsThrow ==
    [][ (_config = None /\ op' = "loadConfig" /\ op' # op) =>
          LET domains == {v \in {WorkspaceSetting("domain"), environment.BACKLOG_DOMAIN} : NonEmpty(v)}
              apiKeys == {v \in {WorkspaceSetting("apiKey"), environment.BACKLOG_API_KEY} : NonEmpty(v)}
          IN IF domains = {} \/ apiKeys = {}
             THEN /\ outcome' = Failed(MkError("Error", MsgNotConfigured))
                  /\ _config' = None
                  /\ returned' = None
             ELSE /\ outcome'.status = "ok"
                  /\ returned' # None
                  /\ Some(returned'[1].domain) \in domains
                  /\ Some(returned'[1].apiKey) \in apiKeys ]_vars

\* loadConfig threw for a missing API key although the domain is set
C12_Witness ==
    /\ op = "loadConfig"
    /\ outcome.status = "error"
    /\ outcome.error.message = MsgNotConfigured
    /\ _config = None
    /\ NonEmpty(environment.BACKLOG_DOMAIN)
    /\ ~NonEmpty(environment.BACKLOG_API_KEY)

\* parseInt of a setting of the environment, or a default
EnvironmentNumber(v, default) == IF NonEmpty(v) THEN ParseInt(v[1]) ELSE Num(default)

\* C13: when the workspace file does not exist, also when BACKLOG_CONFIG_PATH
\* names a path that does not exist, loadConfig does not throw because of it
\* and resolves every setting from the environment alone
C13_MissingFileUsesEnvironment ==
    [][ (_config = None /\ op' = "loadConfig" /\ op' # op
            /\ ConfigPath(environment) \notin DOMAIN fileSystem) =>
          IF NonEmpty(environment.BACKLOG_DOMAIN) /\ NonEmpty(environment.BACKLOG_API_KEY)
          THEN /\ outcome'.status = "ok"
               /\ returned' # None
               /\ returned'[1].domain = environment.BACKLOG_DOMAIN[1]
               /\ returned'[1].apiKey = environment.BACKLOG_API_KEY[1]
               /\ returned'[1].defaultProject = environment.BACKLOG_DEFAULT_PROJECT
               /\ returned'[1].maxRetries = EnvironmentNumber(environment.BACKLOG_MAX_RETRIES, 3)
               /\ returned'[1].timeout = EnvironmentNumber(environment.BACKLOG_TIMEOUT, 30000)
          ELSE outcome' = Failed(MkError("Error", MsgNotConfigured)) ]_vars

\* BACKLOG_CONFIG_PATH names a missing file while the default file exists,
\* and loadConfig returned the environment's settings
C13_Witness ==
    /\ op = "loadConfig"
    /\ returned # None
    /\ environment.BACKLOG_CONFIG_PATH = Some(Chars("/ws/missing.env"))
    /\ DOMAIN fileSystem = {DefaultConfigPath}
    /\ fileSystem[DefaultConfigPath] = FileAll
    /\ returned[1].domain = Chars("env.backlog.com")
    /\ returned[1].maxRetries = Num(2)
    /\ returned[1].timeout = Num(30000)

\* the .env format as the specification describes it: what one line sets
QuoteCharacters == {"U0022", "'"}
WithoutLeadingQuote(v) ==
    IF v # <<>> /\ Head(v) \in QuoteCharacters THEN Tail(v) ELSE v
WithoutTrailingQuote(v) ==
    IF v # <<>> /\ v[Len(v)] \in QuoteCharacters THEN SubSeq(v, 1, Len(v) - 1) ELSE v
DescribedEntry(line) ==
    IF Trim(line) = <<>> \/ Head(line) = "#" \/ ~\E i \in DOMAIN line : line[i] = "="
    THEN <<>>
    ELSE LET first == CHOOSE i \in DOMAIN line :
                         line[i] = "=" /\ \A j \in 1..(i - 1) : line[j] # "="
         IN << Trim(SubSeq(line, 1, first - 1)),
               WithoutTrailingQuote(WithoutLeadingQuote(
                   Trim(SubSeq(line, first + 1, Len(line))))) >>

\* the value the file gives a key: that of the last line that sets it
DescribedSetting(k) ==
    LET lines == WorkspaceLines(environment, fileSystem)
        setting == {i \in DOMAIN lines :
                       DescribedEntry(lines[i]) # <<>>
                         /\ DescribedEntry(lines[i])[1] = ConfigKeys[k]}
    IN IF setting = {}
       THEN None
       ELSE Some(DescribedEntry(lines[CHOOSE i \in setting : \A j \in setting : j <= i])[2])

\* C14: the workspace file is read line by line in .env format: blank lines,
\* '#' lines and lines without '=' set nothing; otherwise the key is the
\* trimmed text before the first '=' and the value the text after it,
\* trimmed, less one leading and one trailing quote. Observed through
\* loadConfig for the settings the environment leaves unset
C14_EnvFileFormat ==
    [][ (_config = None /\ op' = "loadConfig" /\ op' # op) =>
          IF outcome'.status = "error"
          THEN \/ ~NonEmpty(DescribedSetting("domain")) /\ ~NonEmpty(environment.BACKLOG_DOMAIN)
               \/ ~NonEmpty(DescribedSetting("apiKey")) /\ ~NonEmpty(environment.BACKLOG_API_KEY)
          ELSE /\ ~NonEmpty(environment.BACKLOG_DOMAIN)
                    => Some(returned'[1].domain) = DescribedSetting("domain")
               /\ ~NonEmpty(environment.BACKLOG_API_KEY)
                    => Some(returned'[1].apiKey) = DescribedSetting("apiKey")
               /\ (~NonEmpty(environment.BACKLOG_DEFAULT_PROJECT)
                     /\ NonEmpty(DescribedSetting("defaultProject")))
                    => returned'[1].defaultProject = DescribedSetting("defaultProject")
               /\ (~NonEmpty(environment.BACKLOG_MAX_RETRIES)
                     /\ NonEmpty(DescribedSetting("maxRetries")))
                    => returned'[1].maxRetries = ParseInt(DescribedSetting("maxRetries")[1])
               /\ (~NonEmpty(environment.BACKLOG_TIMEOUT)
                     /\ NonEmpty(DescribedSetting("timeout")))
                    => returned'[1].timeout = ParseInt(DescribedSetting("timeout")[1]) ]_vars

\* a file with an unmatched quote, a value holding '=', doubled quotes, a
\* '#' line and a line without '=' was read
C14_Witness ==
    /\ op = "loadConfig"
    /\ returned # None
    /\ environment = NoEnvironment
    /\ DOMAIN fileSystem = {DefaultConfigPath}
    /\ fileSystem[DefaultConfigPath] = FileQuotes
    /\ returned[1].domain = Chars("ws.backlog.com")
    /\ returned[1].apiKey = Chars("key=with=equals")
    /\ returned[1].defaultProject = Some(<<"U0022">> \o Chars("P") \o <<"U0022">>)
    /\ returned[1].maxRetries = Num(4)
    /\ returned[1].timeout = Num(30000)

\* the integer a decimal numeral writes
DecimalDigits == Chars("0123456789")
IsNumeral(s) == s # <<>> /\ \A i \in DOMAIN s : \E d \in DOMAIN DecimalDigits : DecimalDigits[d] = s[i]
RECURSIVE NumeralValue(_)
NumeralValue(s) ==
    IF s = <<>>
    THEN 0
    ELSE 10 * NumeralValue(SubSeq(s, 1, Len(s) - 1))
           + (CHOOSE d \in DOMAIN DecimalDigits : DecimalDigits[d] = s[Len(s)]) - 1

\* the string configured for a setting: the file's when not empty, else the
\* environment's
Configured(k, v) == IF NonEmpty(WorkspaceSetting(k)) THEN WorkspaceSetting(k) ELSE v

\* C15: loadConfig returns maxRetries = 3 when neither the file nor the
\* environment sets BACKLOG_MAX_RETRIES and timeout = 30000 when neither sets
\* BACKLOG_TIMEOUT; otherwise each is the base-10 integer of the configured
\* string
C15_DefaultsAndIntegers ==
    [][ Resolves =>
          LET retries == Configured("maxRetries", environment.BACKLOG_MAX_RETRIES)
              time == Configured("timeout", environment.BACKLOG_TIMEOUT)
          IN /\ ~NonEmpty(retries) => returned'[1].maxRetries = Num(3)
             /\ (NonEmpty(retries) /\ IsNumeral(retries[1]))
                  => returned'[1].maxRetries = Num(NumeralValue(retries[1]))
             /\ ~NonEmpty(time) => returned'[1].timeout = Num(30000)
             /\ (NonEmpty(time) /\ IsNumeral(time[1]))
                  => returned'[1].timeout = Num(NumeralValue(time[1])) ]_vars

\* neither source sets the two settings and loadConfig returned the defaults
C15_Witness ==
    /\ op = "loadConfig"
    /\ returned # None
    /\ environment.BACKLOG_MAX_RETRIES = None
    /\ environment.BACKLOG_TIMEOUT = None
    /\ WorkspaceSetting("maxRetries") = None
    /\ WorkspaceSetting("timeout") = None
    /\ returned[1].maxRetries = Num(3)
    /\ returned[1].timeout = Num(30000)

\* C16: resolveProjectIdOrKey(p) returns p when p is a non-empty string,
\* whatever the default; with p omitted or empty it returns the configured
\* default project, and when none is configured (unset or empty) it throws
\* the error that says neither a project nor a default project is set
C16_ProjectResolution ==
    [][ \A p \in ProjectArgumentPool :
          resolveProjectIdOrKey(p) =>
            IF NonEmpty(p)
            THEN outcome'.status = "ok" /\ answer' = p
            ELSE Fresh.error = NoError =>
                   IF NonEmpty(Fresh.config.defaultProject)
                   THEN outcome'.status = "ok" /\ answer' = Fresh.config.defaultProject
                   ELSE /\ outcome'.status = "error"
                        /\ outcome'.error.message = MsgNoProject
                        /\ answer' = None ]_vars

\* called without an argument where the default project is the empty
\* string, it threw that error
C16_Witness ==
    /\ op = "resolveProjectIdOrKey"
    /\ _config # None
    /\ _config[1].defaultProject = Some(<<>>)
    /\ outcome.status = "error"
    /\ outcome.error.message = MsgNoProject

\* the API key the manager masks
MaskedKey == _config[1].apiKey

\* C17: getMaskedApiKey returns a string as long as the API key: all '*'
\* for a key of at most 8 characters, otherwise the key's first 4 and last 4
\* characters with '*' between them; a repeated call returns the same string
C17_MaskShape ==
    /\ [](  (op = "getMaskedApiKey" /\ outcome.status = "ok") =>
              LET masked == answer[1]
                  n == Len(MaskedKey)
              IN /\ Len(masked) = n
                 /\ n <= 8 => \A i \in 1..n : masked[i] = "*"
                 /\ n > 8 => \A i \in 1..n :
                               masked[i] = IF i <= 4 \/ i > n - 4 THEN MaskedKey[i] ELSE "*" )
    /\ [][ (op = "getMaskedApiKey" /\ outcome.status = "ok" /\ getMaskedApiKey)
             => answer' = answer ]_vars

\* a ten-character key was masked to its ends and two stars
C17_Witness ==
    /\ op = "getMaskedApiKey"
    /\ _config # None
    /\ MaskedKey = Chars("k*kkkkkk*k")
    /\ answer = Some(Chars("k*kk**kk*k"))

\* C18: the string getMaskedApiKey returns differs from the API key unless
\* the key consists of '*' only
C18_MaskDiffersFromKey ==
    (op = "getMaskedApiKey" /\ outcome.status = "ok"
       /\ \E i \in DOMAIN MaskedKey : MaskedKey[i] # "*")
      => answer[1] # MaskedKey

\* C19: executeTool with a name that is not registered rejects with an error
\* whose message contains 'Unknown tool: <name>', and hasTool(name) is false
\* for exactly those names
C19_UnknownToolMessage ==
    (op = "executeTool" /\ pc = "idle") =>
        /\ ~hasTool(call.name) <=> call.name \notin DOMAIN handlers
        /\ ~hasTool(call.name) =>
             /\ outcome.status = "error"
             /\ Includes(outcome.error.message, Chars("Unknown tool: ") \o call.name)
        /\ hasTool(call.name) =>
             ~(outcome.status = "error"
                 /\ Includes(outcome.error.message, Chars("Unknown tool: ")))

\* an error in BacklogError format has a string 'code'; the errors of the
\* client's own classes are granted one, the built-in Error has none
CarriesCode(error) == ~IsBuiltinError(error)

\* C20: every error get() rejects with is in BacklogError format, with a
\* string 'code' and a string 'message', whether its cause is an API error
\* response, a network error or a rate-limit response
C20_RejectionsInBacklogErrorFormat ==
    (op = "get" /\ pc = "idle" /\ outcome.status = "error") =>
        /\ CarriesCode(outcome.error)
        /\ outcome.error.message \in Seq(STRING)

\* C25: every get() call ends after a number of HTTP requests bounded in
\* terms of maxRetries, whatever the server answers, a server that answers
\* 429 included: at most maxRetries + 1 attempts, and, granting each attempt
\* one resend, at most 2 * (maxRetries + 1) requests
C25_RequestsBoundedByRetries ==
    op = "get" => Len(wire) <= 2 * (maxRetries + 1)

\* the errors the retry rule names as retryable
DescribedPermanentCodes ==
    {"ENOTFOUND", "ECONNREFUSED", "EHOSTUNREACH", "ENOENT", "EACCES", "EPERM"}
DescribedRetryable(reply) ==
    \/ reply.kind = "http" /\ (reply.status = 429 \/ reply.status >= 500)
    \/ reply.kind = "network" /\ reply.code \notin DescribedPermanentCodes

\* C27: a failed attempt is retried only if its error is retryable: an HTTP
\* 429 or 5xx, or a network error whose code is not a permanent one; every
\* other failure ends the call at once and is never retried
C27_OnlyRetryableRetried ==
    [][ \A reply \in ReplyPool :
          Respond(reply) =>
            /\ attempt' = attempt + 1 => DescribedRetryable(reply)
            /\ (reply.kind # "ok" /\ ~DescribedRetryable(reply)) =>
                 /\ pc' = "idle"
                 /\ outcome'.status = "error"
                 /\ attempt' = attempt
                 /\ wire' = wire
                 /\ waits' = waits
            /\ (reply.kind # "ok" /\ reply.status # 429 /\ DescribedRetryable(reply)
                  /\ attempt <= maxRetries) =>
                 attempt' = attempt + 1 /\ pc' = "inflight" ]_vars

\* a transient failure was retried, and the permanent network error that
\* answered the retry ended the call although a retry remained
C27_Witness ==
    /\ op = "get"
    /\ pc = "idle"
    /\ maxRetries = 2
    /\ attempt = 2
    /\ Len(wire) = 2
    /\ last.code = "ENOTFOUND"
    /\ outcome.status = "error"

\* the waits before the retries of the call, in order
IsBackoff(w) == w.kind = "backoff"
BackoffWaits == SelectSeq(waits, IsBackoff)

\* 1 s, 2 s, 4 s, ...: each wait doubles the one before, up to 30 s
RECURSIVE DescribedBackoff(_)
DescribedBackoff(n) ==
    IF n = 1 THEN 1000 ELSE Min(2 * DescribedBackoff(n - 1), 30000)

\* C28: before the n-th retry of a get() call the client waits exactly
\* min(2^(n-1) * 1000, 30000) ms; the waits never decrease and never exceed
\* 30 s
C28_BackoffWaits ==
    op = "get" =>
        /\ Len(BackoffWaits) = attempt - 1
        /\ \A n \in DOMAIN BackoffWaits :
              /\ BackoffWaits[n].ms = Num(DescribedBackoff(n))
              /\ BackoffWaits[n].ms.n <= 30000
              /\ n > 1 => BackoffWaits[n - 1].ms.n <= BackoffWaits[n].ms.n

\* the sixth retry waited the ceiling of 30 s, the fifth 16 s
C28_Witness ==
    /\ op = "get"
    /\ Len(BackoffWaits) = 6
    /\ BackoffWaits[5].ms = Num(16000)
    /\ BackoffWaits[6].ms = Num(30000)

\* the wait the rate-limit rule names for a 429 response whose Retry-After
\* header is absent or a number of seconds
DescribedRateLimitWait(reply) ==
    LET seconds == IF NonEmpty(reply.retryAfter)
                   THEN NumeralValue(reply.retryAfter[1])
                   ELSE 60
    IN Num(Min(seconds * 1000, 60000))

\* C26: for a response with status 429 the interceptor waits
\* min(Retry-After * 1000, 60000) ms, Retry-After being 60 s when the header
\* is absent, then resends the same request, whose response is the call's;
\* an error with another status or without a response passes through it
\* with no such wait and no resend
C26_RateLimitWaitAndResend ==
    [][ \A reply \in ReplyPool :
          Respond(reply) =>
            IF reply.status = 429
            THEN /\ (~NonEmpty(reply.retryAfter) \/ IsNumeral(reply.retryAfter[1])) =>
                      waits' = Append(waits, [kind |-> "rateLimit",
                                              ms |-> DescribedRateLimitWait(reply)])
                 /\ Len(wire') = Len(wire) + 1
                 /\ wire'[Len(wire')].method = wire[Len(wire)].method
                 /\ wire'[Len(wire')].via = "resend"
                 /\ pc' = "inflight"
                 /\ attempt' = attempt
            ELSE /\ \A i \in DOMAIN waits' : waits'[i].kind = "rateLimit" => i \in DOMAIN waits
                 /\ \A i \in DOMAIN wire' : wire'[i].via = "resend" => i \in DOMAIN wire
                 /\ (reply.kind = "ok" /\ op = "get") =>
                      pc' = "idle" /\ outcome' = Ok(reply.data) ]_vars

\* two 429 responses, with Retry-After 1 and 120, were waited for 1 s and
\* 60 s, each followed by a resend, and the second resend's response resolved
\* the first attempt
C26_Witness ==
    /\ op = "get"
    /\ pc = "idle"
    /\ attempt = 1
    /\ outcome.status = "ok"
    /\ waits = << [kind |-> "rateLimit", ms |-> Num(1000)],
                  [kind |-> "rateLimit", ms |-> Num(60000)] >>
    /\ Len(wire) = 3
    /\ \A i \in 2..3 : wire[i] = [method |-> "GET", via |-> "resend"]

\* C24: every log function (error, warn, info, debug and the helpers built
\* on them) writes to stderr only: nothing is ever written to stdout, which
\* carries the MCP stdio protocol
C24_LogsOnlyToStderr ==
    console.stdout = <<>>

\* C21: when a call of a registered tool fails because Backlog answered 401
\* or 403, the MCP call handler reports an authentication error: an McpError
\* with code InvalidRequest whose message starts with '認証エラー: '
C21_AuthenticationErrorReported ==
    (op = "executeTool" /\ pc = "idle" /\ handlerInvoked /\ last.status \in {401, 403}) =>
        /\ CallToolResponse.isError
        /\ CallToolResponse.error.code = "InvalidRequest"
        /\ StartsWith(CallToolResponse.error.message,
                      <<"U8A8D", "U8A3C", "U30A8", "U30E9", "U30FC">> \o Chars(": "))


\* ------------------------------------------------ claims on tool handlers

\* the arguments of the tool call in progress
Asked == call.args

\* a get() of handler `name` is on its way to Backlog
Sent(name) == op = name /\ pc = "inflight"

\* the smaller of the count asked for, 20 when none was, and 100
DescribedCount(count) ==
    LET wanted == IF count = None THEN 20 ELSE count[1]
    IN IF wanted <= 100 THEN wanted ELSE 100

\* C22: get_issues and get_issue_comments send count = min(requested, 100)
\* with 20 for an omitted count, so the count sent never exceeds 100;
\* get_issues sends offset = 0 when offset is omitted
C22_CountAndOffsetSent ==
    /\ \A name \in {"get_issues", "get_issue_comments"} :
          Sent(name) =>
            /\ request.params["count"] = DescribedCount(Asked.count)
            /\ request.params["count"] <= 100
    /\ (Sent("get_issues") /\ Asked.offset = None) => request.params["offset"] = 0

\* get_issue_comments was asked for 101 comments and asks Backlog for 100
C22_Witness ==
    /\ Sent("get_issue_comments")
    /\ Asked.count = Some(101)
    /\ request.endpoint = [path |-> "/issues/{}/comments", of |-> Chars("TEST-1")]
    /\ request.params["count"] = 100

\* the configuration loads and names a default project
DefaultConfigured == Fresh.error = NoError /\ NonEmpty(Fresh.config.defaultProject)

\* C23: get_issues sends projectId = [p] for the explicit projectId p, else
\* for the configured default project, and no projectId parameter when there
\* is neither; the result's isDefaultProject is true exactly when projectId
\* was omitted and a default project is configured
C23_ProjectSent ==
    /\ Sent("get_issues") =>
         IF NonEmpty(Asked.projectId)
         THEN /\ "projectId" \in DOMAIN request.params
              /\ request.params["projectId"] = <<Asked.projectId[1]>>
         ELSE IF DefaultConfigured
         THEN /\ "projectId" \in DOMAIN request.params
              /\ request.params["projectId"] = <<Fresh.config.defaultProject[1]>>
         ELSE "projectId" \notin DOMAIN request.params
    /\ (op = "get_issues" /\ outcome.status = "ok") =>
         outcome.isDefaultProject = (~NonEmpty(Asked.projectId) /\ DefaultConfigured)

\* get_issues without a projectId, where the default project is TEST,
\* answered with isDefaultProject
C23_Witness ==
    /\ op = "get_issues"
    /\ Asked.projectId = None
    /\ Fresh.config.defaultProject = Some(Chars("TEST"))
    /\ outcome.status = "ok"
    /\ outcome.isDefaultProject

\* C30: a tool with an optional projectIdOrKey, called without one where no
\* default project is configured, fails with the missing-default-project
\* error itself, not wrapped in the tool's failure message, and sends no
\* request; when the call succeeds isDefaultProject is true exactly when
\* projectIdOrKey was omitted
C30_MissingDefaultProjectUnwrapped ==
    \A name \in DOMAIN ProjectTools :
      op = name =>
        /\ (~NonEmpty(Asked.projectIdOrKey) /\ Fresh.error = NoError /\ ~DefaultConfigured) =>
              /\ outcome = Failed(MkError("Error", MsgNoProject))
              /\ pc = "idle"
              /\ wire = <<>>
              /\ request = NoRequest
        /\ outcome.status = "ok" =>
              outcome.isDefaultProject = ~NonEmpty(Asked.projectIdOrKey)

\* get_statuses without a project, none configured: the error of
\* resolveProjectIdOrKey came back as it was
C30_Witness ==
    /\ op = "get_statuses"
    /\ Asked.projectIdOrKey = None
    /\ Fresh.error = NoError
    /\ outcome.status = "error"
    /\ outcome.error.message = MsgNoProject
    /\ wire = <<>>


\* ---------------------------------------------------- claims on main()

\* loadConfig has succeeded and validateApiKey has returned true
StartupPassed == _config # None /\ server.isValidApiKey = Some(TRUE)

\* configuration loading failed, or the API key check returned false
StartupFailed == _config = None \/ server.isValidApiKey = Some(FALSE)

\* C29: tools are registered and list and call requests are answered only
\* after loadConfig has succeeded and validateApiKey has returned true; when
\* loading fails or the key check returns false the process exits with code
\* 1, nothing is registered, and no tool handler runs then or afterwards
C29_ServesOnlyAfterValidation ==
    /\ []( (tools # <<>> \/ server.phase = "serving") => StartupPassed )
    /\ []( (server.phase \in {"serving", "exited"} /\ StartupFailed) =>
              /\ server = Exited(1, server.isValidApiKey)
              /\ tools = <<>>
              /\ ~handlerInvoked )
    /\ [][ op' \in {"ListToolsRequest", "executeTool"} /\ op' # op
             => (server.phase = "serving" /\ StartupPassed) ]_vars
    /\ [][ server.phase # "exited" ]_vars

\* the key check failed on a 401 and the process has exited with code 1
C29_Witness ==
    /\ op = "main"
    /\ last.status = 401
    /\ server = Exited(1, Some(FALSE))
    /\ tools = <<>>

====
